---- MODULE Spec2Model ----
(***************************************************************************)
(* Synchronised multi-detector acquisition engine of odemis                *)
(* (src/odemis/acq/stream/_sync.py): MultipleDetectorStream.acquire,       *)
(* _cancelAcquisition, _onData and the three workers                       *)
(*   "ccd"   SEMCCDMDStream._runAcquisition          (CameraSync)          *)
(*   "stage" SEMCCDMDStream._runAcquisitionScanStage (scan stage)          *)
(*   "sem"   SEMMDStream._runAcquisition             (BeamSync)            *)
(* interleaved with the caller thread and the detector dataflows; and the  *)
(* confocal controller, which shares acquire() with them:                  *)
(*   "fluo"  ScannedFluoMDStream._runAcquisition, _cancelAcquisition,      *)
(*           _onData                                                       *)
(* and the controller of the time correlator, ScannedRemoteTCStream, with  *)
(* its worker, its frame thread and its own acquire and cancel.            *)
(*                                                                         *)
(* Python indexes the streams 0..1; here stream 1 is the first stream      *)
(* (e-beam detector, _df0) and stream 2 the last one (_streams[-1], the    *)
(* CCD of the CameraSync controllers).                                     *)
(***************************************************************************)
EXTENDS Integers, Sequences, FiniteSets, TLC

\* ------------------------------------------------------------- bounds
MaxAcq == 2      \* acquire() calls on one engine instance (SpecMulti)
MaxRaceRep == 2  \* largest rep_x of the grids acquired under cancellation
MaxFluoCancel == 1 \* acquisitions of the confocal controller that the caller cancels
MaxRepX == 2     \* largest rep_x of the grids acquired without cancellation
MaxRepY == 2     \* largest rep_y of the grids acquired without cancellation
MaxK == 2        \* largest countdown the leech returns
MaxDriftRep == 2 \* largest rep_x of the grids acquired with a drift corrector
MaxDrift == 2    \* largest drift the drift corrector reports, in pixels
MaxTCAcq == 2    \* acquisitions started on the time correlator stream
MaxFrames == 2   \* largest number of frames that make one image (nfr)
MaxProduced == 2 \* frames the photo-detector sends in all
MaxTile == 2     \* largest side of a tile, in pixels
MaxCells == 8    \* most pixels of an assembled image
MaxVal == 1      \* largest value of a pixel
MaxQueue == 1    \* a frame that is not counted is sent when fewer frames wait in the queue
MaxLeechRep == 3  \* largest rep_x of the lines acquired with a leech that may fail
MaxLeechFail == 2 \* most calls of next() that raise in one acquisition
MaxRoiDen == 2   \* the corners of the ROI are multiples of 1 / MaxRoiDen

\* ---------------------------------------------------- program constants
NStreams == 2    \* SEMCCDMDStream requires exactly 2 streams
MaxFailures == 3 \* "if failures >= 3": in three failures we just give up

SEM == 1
CCD == NStreams
Streams == 1..NStreams
Acqs == 1..MaxAcq
NoLeech == -1    \* leech_np entry None: the leech failed to start

Variants == {"ccd", "stage", "sem"}

VARIABLES
  variant,          \* which controller the engine instance is
  rep,              \* repetition.value = <<rep_x, rep_y>>
  max_acq,          \* how many acquisitions the caller starts
  leech_k,          \* what the leech's start() and next() return; NoLeech
                    \* when start() raises
  dc,               \* the leech is an AnchorDriftCorrector (_dc_estimator)
  light,            \* the excitation light of the confocal streams is on
  linked,           \* the sub-streams' local settings are linked to the
                    \* hardware (_linkHwVAs called, _unlinkHwVAs not yet)
  acq_state,        \* _acq_state
  acq_done,         \* _acq_done (threading.Event)
  acq_complete,     \* _acq_complete[k] (threading.Event per stream)
  acq_data,         \* _acq_data[k]: samples received, in order; a sample
                    \* is its MD_POS, the position it was acquired at
  raw,              \* _raw: assembled arrays, one per stream
  anchor_raw,       \* _anchor_raw: the data of the anchor region
  current_future,   \* _current_future: 0 is None, else the acquisition
  prog,             \* number of future.set_progress calls (reset with _prog_sum)
  subscribed,       \* engine subscriber k is subscribed to dataflow k
  synced,           \* dataflow k is synchronizedOn(_trigger)
  trig,             \* a notify() of _trigger not yet consumed
  inflight,         \* per dataflow: the frame on its way to _onData
  translation,      \* _emitter.translation.value
  spos,             \* position of the scan stage
  wk,               \* per acquisition: the worker thread's locals
  fut,              \* per acquisition: state of the ProgressiveFuture
  cl,               \* the caller thread (acquire / future.cancel)
  \* ScannedRemoteTCStream, the controller of the time correlator
  nfr,              \* number of frames to accumulate
  tc_state,         \* _acq_state
  tc_done,          \* _acq_done (threading.Event)
  frame_done,       \* _frame_done (threading.Event)
  tc_future,        \* _current_future: 0 is None, else the acquisition
  tc_thread,        \* _acq_thread: 0 is None, else the acquisition it runs
  frame_thread,     \* _frame_thread: 0 is None, else the acquisition whose
                    \* worker created the thread
  new_acquisition,  \* _new_acquisition
  data_queue,       \* _data_queue
  tc_raw,           \* raw: empty, or the one accumulated array
  tc_linked,        \* the helper stream is linked to the hardware settings
  tc_sub,           \* dataflows _onNewData / _onAcqStop are subscribed to
  emission,         \* the light emissions are on
  tw,               \* per acquisition: the worker thread
  tf,               \* per acquisition: the frame thread its worker created
  tfut,             \* per acquisition: state of the ProgressiveFuture
  tcl,              \* the caller thread (acquire / future.cancel)
  produced,         \* number of frames the photo-detector has sent
  roi_val,          \* roi.value = <<left, top, right, bottom>>, in units of
  roi_den,          \* 1 / roi_den of the field of view
  pcall             \* a call of one of the computing methods of the engine,
                    \* outside of any acquisition: its name, its arguments
                    \* and, once it has run, what it returned or raised

vars == <<variant, rep, max_acq, leech_k, dc, light, linked, acq_state, acq_done, acq_complete,
          acq_data, raw, anchor_raw, current_future, prog, subscribed, synced, trig,
          inflight, translation, spos, wk, fut, cl,
          nfr, tc_state, tc_done, frame_done, tc_future, tc_thread, frame_thread,
          new_acquisition, data_queue, tc_raw, tc_linked, tc_sub, emission,
          tw, tf, tfut, tcl, produced, roi_val, roi_den, pcall>>

engine == <<acq_state, acq_done, acq_complete, acq_data, raw, anchor_raw,
            current_future, prog>>
hw == <<subscribed, synced, trig, inflight, translation, spos>>
\* the time correlator stream, an object of its own
tcv == <<nfr, tc_state, tc_done, frame_done, tc_future, tc_thread, frame_thread,
         new_acquisition, data_queue, tc_raw, tc_linked, tc_sub, emission,
         tw, tf, tfut, tcl, produced>>
\* the configuration of the engine, and with it what the workers of the
\* engine never write
setting == <<variant, rep, max_acq, leech_k, dc, roi_val, roi_den, tcv, pcall>>
\* all of the engine, which the time correlator stream never writes
mds == <<variant, rep, max_acq, leech_k, dc, roi_val, roi_den, light, linked, engine, hw, wk, fut,
         cl, pcall>>
conf == <<setting, light, linked>>

\* ------------------------------------------------------- grid generator
FullRoi == <<0, 0, 1, 1>>   \* the ROI that is the whole field of view
EmitterShape == <<4, 4>>    \* _emitter.shape

\* numpy.linspace(a, b, num)[k]
Linspace(a, b, num, k) == IF num = 1 THEN a ELSE a + (k * (b - a)) \div (num - 1)

\* lim_main of _getSpotPositions along axis d (1 = X, 2 = Y), scaled by
\* 2 * rep[d] * roi_den so that every value is an integer:
\*   lim = roi[d] + pxs/2, roi[d+2] - pxs/2 ; lim_main = shape * (lim - 0.5)
LimMain(r, d) ==
  LET width == roi_val[d + 2] - roi_val[d]
      lo == 2 * r[d] * roi_val[d] + width
      hi == 2 * r[d] * roi_val[d + 2] - width
      half == r[d] * roi_den
  IN  <<EmitterShape[d] * (lo - half), EmitterShape[d] * (hi - half)>>

\* spot_pos[y, x] of _getSpotPositions: index (Y, X), content (X, Y)
SpotPos(r, y, x) ==
  <<Linspace(LimMain(r, 1)[1], LimMain(r, 1)[2], r[1], x),
    Linspace(LimMain(r, 2)[1], LimMain(r, 2)[2], r[2], y)>>

\* numpy.ndindex(*rep[::-1]): indices (y, x) of shape (rep_y, rep_x), the
\* last dimension iterating first. NdFirst is the first index, NdNext the
\* successor; the iterator is exhausted when NdDone.
NdShape(r) == <<r[2], r[1]>>
NdFirst == <<0, 0>>
\* an iteration with the first dimension (Y) iterating first
NdNextYFast(shape, i) ==
  IF i[1] + 1 < shape[1] THEN <<i[1] + 1, i[2]>> ELSE <<IF i[2] + 1 < shape[2] THEN 0 ELSE shape[1], i[2] + 1>>
NdNext(shape, i) ==
  IF i[2] + 1 < shape[2] THEN <<i[1], i[2] + 1>> ELSE <<i[1] + 1, 0>>
NdDone(shape, i) == i[1] >= shape[1]

\* numpy.prod(rep)
TotNum(r) == r[1] * r[2]

\* Scan stage: ranges of the axes (x min, y min, x max, y max), in emitter
\* pixels. The positions of the stage are scaled like LimMain, by Scale.
StageRng == <<-8, -8, 8, 8>>
Scale(r, d) == 2 * r[d] * roi_den

\* pos0 of the finally block: the centre of the range of the axes
StageCentre(r) ==
  <<((StageRng[1] + StageRng[3]) * Scale(r, 1)) \div 2,
    ((StageRng[2] + StageRng[4]) * Scale(r, 2)) \div 2>>

\* lim_main of _getScanStagePositions, with sem_fov = shape * pixelSize and
\* the pixel size as unit; orig is the position of the stage:
\* (x0, y0, x0 + w, y0 - h)
\* The same for a ROI roi in units of 1/den, the positions scaled by
\* 2 * rep[d] * den
StageLimMainOf(roi, den, r, orig) ==
  LET lo(d) == 2 * r[d] * roi[d] + (roi[d + 2] - roi[d])
      hi(d) == 2 * r[d] * roi[d + 2] - (roi[d + 2] - roi[d])
      half(d) == r[d] * den
      shift_x == EmitterShape[1] * (half(1) - lo(1))
      shift_y == -(EmitterShape[2] * (half(2) - lo(2)))
      width(d) == EmitterShape[d] * (hi(d) - lo(d))
      x0 == orig[1] - shift_x
      y0 == orig[2] - shift_y
  IN  <<x0, y0, x0 + width(1), y0 - width(2)>>
StageLimMain(r, orig) == StageLimMainOf(roi_val, roi_den, r, orig)

\* "if not (spos_rng[0] <= lim_main[0] <= lim_main[2] <= spos_rng[2] and
\*          spos_rng[1] <= lim_main[3] <= lim_main[1] <= spos_rng[3])"
\* a check of the lower ends of the ranges only
StageInRangeLow(roi, den, r, orig) ==
  LET lm == StageLimMainOf(roi, den, r, orig)
      sc(d) == 2 * r[d] * den
  IN  /\ StageRng[1] * sc(1) <= lm[1] /\ lm[1] <= lm[3]
      /\ StageRng[2] * sc(2) <= lm[4] /\ lm[4] <= lm[2]
StageInRangeOf(roi, den, r, orig) ==
  LET lm == StageLimMainOf(roi, den, r, orig)
      sc(d) == 2 * r[d] * den
  IN  /\ StageRng[1] * sc(1) <= lm[1] /\ lm[1] <= lm[3]
      /\ lm[3] <= StageRng[3] * sc(1)
      /\ StageRng[2] * sc(2) <= lm[4] /\ lm[4] <= lm[2]
      /\ lm[2] <= StageRng[4] * sc(2)
StageInRange(r, orig) == StageInRangeOf(roi_val, roi_den, r, orig)

\* stage_pos[x, y] of _getScanStagePositions: index (X, Y), content (X, Y)
StagePosOf(roi, den, r, orig, x, y) ==
  LET lm == StageLimMainOf(roi, den, r, orig) IN
    <<Linspace(lm[1], lm[3], r[1], x), Linspace(lm[2], lm[4], r[2], y)>>
StagePos(r, orig, x, y) == StagePosOf(roi_val, roi_den, r, orig, x, y)

\* Range of _emitter.translation (x min, y min, x max, y max), in pixels
TransRng == <<-2, -2, 2, 2>>

\* translation.clip(trans): each coordinate brought into the range
Clip(v, lo, hi) == IF v < lo THEN lo ELSE IF v > hi THEN hi ELSE v
ClipTrans(r, t) ==
  <<Clip(t[1], TransRng[1] * Scale(r, 1), TransRng[3] * Scale(r, 1)),
    Clip(t[2], TransRng[2] * Scale(r, 2), TransRng[4] * Scale(r, 2))>>

\* what the drift corrector may report as tot_drift (X, Y), in pixels
Drifts == {-MaxDrift, 0, MaxDrift} \X (-1..0)

\* leech.get_next_rectangle(shape, current, n): the (Y, X) shape of the
\* largest block of at most n pixels that starts at pixel number current and
\* is either whole lines or a part of one line
NextRectangle(shape, current, n) ==
  LET cx == current % shape[2]
      cy == current \div shape[2]
  IN  IF cx = 0 /\ n >= shape[2]
        THEN <<IF n \div shape[2] < shape[1] - cy THEN n \div shape[2] ELSE shape[1] - cy,
               shape[2]>>
        ELSE <<1, IF n < shape[2] - cx THEN n ELSE shape[2] - cx>>

\* ------------------------------------------------------- image assembly
\* A DataArray is its shape, its values in C order (the last index varying
\* first) and its metadata MD_POS and MD_PIXEL_SIZE, in pixels of the
\* emitter; for the arrays computed they are multiples of 1/scale of it.
EmitterPxs == <<1, 1>>      \* _emitter.pixelSize.value

RECURSIVE Prod(_)
Prod(sh) == IF sh = <<>> THEN 1 ELSE sh[1] * Prod(Tail(sh))

\* numpy.concatenate([ar.flatten() for ar in data_list]), and the values of
\* numpy.array(data_list) in C order
RECURSIVE Concatenate(_)
Concatenate(dl) == IF dl = <<>> THEN <<>> ELSE dl[1].flat \o Concatenate(Tail(dl))

\* item [y, x] of an array of two dimensions
Item2(a, y, x) == a.flat[y * a.shape[2] + x + 1]

\* the array left as it is
RollAxisNone(flat, Y, X, T, S) == flat
\* numpy.ascontiguousarray(numpy.rollaxis(arr, 2, 1)) for the values flat of
\* an array of shape (Y, X, T, S): the values of the array of shape
\* (Y, T, X, S) whose item [y, t, x, s] is item [y, x, t, s] of arr
RollAxis(flat, Y, X, T, S) ==
  [i \in 1..Len(flat) |->
     LET j == i - 1
         s == j % S
         x == (j \div S) % X
         t == (j \div (S * X)) % T
         y == j \div (S * X * T)
     IN  flat[((y * X + x) * T + t) * S + s + 1]]

\* _getPixelSize(), as the fraction num / den
GetPixelSize(roi, den, r) ==
  [num |-> (roi[3] - roi[1]) * EmitterPxs[1] * EmitterShape[1], den |-> den * r[1]]

\* _get_center_pxs(rep, sub_shape, datatl): centre and pixel size, scaled by
\* scale
GetCenterPxs(roi, den, r, sub, datatl) ==
  LET n == Len(datatl.shape)
      pxsx == GetPixelSize(roi, den, r)
      K == 2 * pxsx.den * sub[1] * sub[2]
      \* 2 * tl
      tl2 == <<2 * datatl.pos[1] - datatl.pxs[1] * (datatl.shape[n] - 1),
               2 * datatl.pos[2] + datatl.pxs[2] * (datatl.shape[n - 1] - 1)>>
      trep == <<r[1] * sub[1], r[2] * sub[2]>>
      \* K * pxs
      pxs == <<2 * pxsx.num * sub[2], 2 * pxsx.num * sub[1]>>
  IN  [center |-> <<(K \div 2) * tl2[1] + (pxs[1] * (trep[1] - 1)) \div 2,
                    (K \div 2) * tl2[2] - (pxs[2] * (trep[2] - 1)) \div 2>>,
       pxs |-> pxs,
       scale |-> K]

\* a shape in the order of rep
Shape2DRep(r) == r
\* "arr.shape = rep[::-1]" of _assemble2DData
Shape2D(r) == <<r[2], r[1]>>

\* _assemble2DData(rep, data_list)
Assemble2DData(roi, den, r, dl) ==
  IF dl[1].shape = <<0>>
    THEN [exc |-> "none", val |-> dl[1]]
    ELSE LET cp == GetCenterPxs(roi, den, r, <<1, 1>>, dl[1])
             main == Concatenate(dl)
         IN  IF Len(main) # Prod(Shape2D(r))
               THEN [exc |-> "ValueError"]
               ELSE [exc |-> "none",
                     val |-> [shape |-> Shape2D(r), flat |-> main,
                              pos |-> cp.center, pxs |-> cp.pxs, scale |-> cp.scale]]

\* _assembleTiles(rep, data_list), the tiles all of the shape of the first
AssembleTiles(roi, den, r, dl) ==
  LET T == dl[1].shape[1]
      S == dl[1].shape[2]
      X == r[1]
      Y == r[2]
      arr == Concatenate(dl)
      cp == GetCenterPxs(roi, den, r, <<T, S>>, dl[1])
  IN  IF T = 1 /\ S = 1
        THEN IF Len(arr) # Prod(Shape2D(r))
               THEN [exc |-> "ValueError"]
               ELSE [exc |-> "none",
                     val |-> [shape |-> Shape2D(r), flat |-> arr,
                              pos |-> cp.center, pxs |-> cp.pxs, scale |-> cp.scale]]
        ELSE IF Len(arr) # Y * X * T * S
               THEN [exc |-> "ValueError"]
               ELSE [exc |-> "none",
                     val |-> [shape |-> <<Y * T, X * S>>,
                              flat |-> RollAxis(arr, Y, X, T, S),
                              pos |-> cp.center, pxs |-> cp.pxs, scale |-> cp.scale]]

\* --------------------------------------------------------------- state
NoFrame == [st |-> "none", early |-> FALSE, pos |-> <<0, 0>>]

\* Locals of a worker: pc is its place in _runAcquisition; n is n (or
\* spots_sum); i the loop index; j the stream waited for (BeamSync); npx is
\* npixels; np is leech_np[0]; exc the exception raised in the try block;
\* prev is prev_spos, where the worker last sent the scan stage;
\* tgts holds the targets this worker passed to the moves of the scan stage,
\* as pairs <<axis, position>>.
\* raised is exc before the except block converted it; lastmove, what the
\* last move of the scan stage this worker issued was for; excst, the state
\* when it was raised;
\* result what _runAcquisition returned or raised; orig is orig_spos and
\* base the position of the stage that stage_pos was computed from. The
\* others record what
\* happened: ctrue, a cancel of this acquisition returned True; fin, this
\* worker moved the state to FINISHED; ev, the events of the current
\* attempt; order, the index and position of every pixel started; nexts,
\* the values of n at which leech.next() was called; att, the number of
\* triggers sent for the current pixel; completes, the number of calls of
\* leech.complete(); cok, the state was FINISHED and _raw assembled at
\* every one of them; got, the MD_POS that the last sample of each stream
\* had when the pixel was stored. drift is tot_drift of the drift
\* corrector, in pixels.
IdleWorker ==
  [pc |-> "idle", n |-> 0, i |-> NdFirst, j |-> 1, npx |-> 0, failures |-> 0,
   timedout |-> FALSE, exc |-> "none", excst |-> "none", np |-> NoLeech, result |-> "none",
   orig |-> <<0, 0>>, base |-> <<0, 0>>, ctrue |-> FALSE, fin |-> FALSE,
   ev |-> <<>>, order |-> <<>>, nexts |-> {}, att |-> 0,
   completes |-> 0, cok |-> TRUE, got |-> <<>>, drift |-> <<0, 0>>,
   raised |-> "none", lastmove |-> "none", prev |-> <<0, 0>>, nfail |-> {},
   tgts |-> {}]

\* ScannedRemoteTCStream.__init__
TAcqs == 1..MaxTCAcq
IdleTCWorker == [pc |-> "idle", i |-> 0, exc |-> "none", result |-> "none", ctrue |-> FALSE]
InitStream ==
  /\ tc_state = "None"
  /\ tc_done = FALSE
  /\ frame_done = FALSE
  /\ tc_future = 0
  /\ tc_thread = 0
  /\ frame_thread = 0
  /\ new_acquisition = FALSE
  /\ data_queue = <<>>
  /\ tc_raw = <<>>
  /\ tc_linked = FALSE
  /\ tc_sub = {}
  /\ emission = FALSE
  /\ tw = [a \in TAcqs |-> IdleTCWorker]
  /\ tf = [a \in TAcqs |-> "none"]
  /\ tfut = [a \in TAcqs |-> "NONE"]
  /\ tcl = [pc |-> "idle", f |-> 0, ret |-> "none"]
  /\ produced = 0

InitCore ==
  /\ acq_state = "RUNNING"
  /\ acq_done = FALSE
  /\ acq_complete = [k \in Streams |-> FALSE]
  /\ acq_data = [k \in Streams |-> <<>>]
  /\ light = FALSE
  /\ linked = FALSE
  /\ raw = <<>>
  /\ anchor_raw = <<>>
  /\ current_future = 0
  /\ prog = 0
  /\ subscribed = [k \in Streams |-> FALSE]
  /\ synced = [k \in Streams |-> FALSE]
  /\ trig = FALSE
  /\ inflight = [k \in Streams |-> NoFrame]
  /\ translation = <<0, 0>>
  /\ wk = [a \in Acqs |-> IdleWorker]
  /\ fut = [a \in Acqs |-> "NONE"]
  /\ cl = [pc |-> "idle", f |-> 0]
  /\ InitStream

\* the ROI is the whole field of view
InitObjects == roi_val = FullRoi /\ roi_den = 1 /\ InitCore

\* no computing method is being called
NoCall == [f |-> "none"]
InitRest == InitObjects /\ pcall = NoCall

\* The scan stage is expected to be about at the centre of its range
InitEngine == InitRest /\ spos = StageCentre(rep)

\* where the scan stage may be when an acquisition starts, in pixels: at the
\* centre, at the last place from which a grid of 2 pixels fits, at the end
\* of the axis
StageStarts == {0, 7, 8} \X {0, -7, -8}
StageStartsX == {p \in StageStarts : p[2] = 0}

\* One acquisition of a line of pixels with the scan stage, from each of
\* these positions along X, which the caller may cancel
InitStage ==
  /\ variant = "stage"
  /\ rep \in (1..MaxRaceRep) \X {1}
  /\ max_acq = 1
  /\ leech_k \in {NoLeech, 1}
  /\ dc = FALSE
  /\ nfr = 1
  /\ InitRest
  /\ \E p \in StageStartsX : spos = <<p[1] * Scale(rep, 1), p[2] * Scale(rep, 2)>>

\* One acquisition of a single line of pixels, which the caller may cancel
Init ==
  /\ variant \in Variants
  /\ rep \in (1..MaxRaceRep) \X {1}
  /\ max_acq = 1
  /\ leech_k \in {NoLeech, 1}
  /\ dc = FALSE
  /\ nfr = 1
  /\ InitEngine

\* One acquisition of a line of pixels with a drift corrector that runs
\* after every pixel, never cancelled
InitDrift ==
  /\ variant \in Variants
  /\ rep \in (1..MaxDriftRep) \X {1}
  /\ max_acq = 1
  /\ leech_k = 1
  /\ dc = TRUE
  /\ nfr = 1
  /\ InitEngine

\* One acquisition of every grid up to MaxRepX x MaxRepY, never cancelled
InitGrid ==
  /\ variant \in Variants
  /\ rep \in (1..MaxRepX) \X (1..MaxRepY)
  /\ max_acq = 1
  /\ leech_k \in (1..MaxK) \cup {NoLeech}
  /\ dc = FALSE
  /\ nfr = 1
  /\ InitEngine

\* Up to MaxAcq acquisitions of one pixel by BeamSync, one after the other
InitMulti ==
  /\ variant = "sem"
  /\ rep = <<1, 1>>
  /\ max_acq = MaxAcq
  /\ leech_k = 1
  /\ dc = FALSE
  /\ nfr = 1
  /\ InitEngine

\* Up to MaxTCAcq acquisitions of the time correlator stream, of up to
\* MaxFrames frames each; the engine is left alone
InitTC ==
  /\ variant = "sem"
  /\ rep = <<1, 1>>
  /\ max_acq = 1
  /\ leech_k = NoLeech
  /\ dc = FALSE
  /\ nfr \in 1..MaxFrames
  /\ InitEngine

\* Up to MaxAcq acquisitions, one after the other, by the confocal controller
InitFluo ==
  /\ variant = "fluo"
  /\ rep = <<1, 1>>
  /\ max_acq = MaxAcq
  /\ leech_k = NoLeech
  /\ dc = FALSE
  /\ nfr = 1
  /\ InitEngine

\* The computing methods, called on their own. What the detectors send:
\* arrays of two dimensions, or an empty array of shape (0,)
Vals == 0..MaxVal
FirstPos == <<3, -2>>
Sample(shape, flat) == [shape |-> shape, flat |-> flat, pos |-> FirstPos, pxs |-> <<1, 1>>]
EmptySample == Sample(<<0>>, <<>>)
Pending == [exc |-> "pending"]
PCall(f, roi, den, dl) == [f |-> f, roi |-> roi, den |-> den, data |-> dl, ret |-> Pending]

\* data_list of _assemble2DData: one sample per pixel, of one value or empty
Samples2D == {Sample(<<1, 1>>, <<v>>) : v \in Vals} \cup {EmptySample}
Calls2D(r) ==
  {PCall("_assemble2DData", roi_val, roi_den, dl) : dl \in [1..TotNum(r) -> Samples2D]}

\* data_list of _assembleTiles: one tile of shape (T, S) per pixel
TileShapes(r) ==
  {ts \in (1..MaxTile) \X (1..MaxTile) : TotNum(r) * ts[1] * ts[2] <= MaxCells}
Tiles(ts) == {Sample(ts, fl) : fl \in [1..(ts[1] * ts[2]) -> Vals]}
CallsTiles(r) ==
  UNION {{PCall("_assembleTiles", roi_val, roi_den, dl) : dl \in [1..TotNum(r) -> Tiles(ts)]} :
         ts \in TileShapes(r)}

\* One call of _assemble2DData or of _assembleTiles, for every grid up to
\* MaxRepX x MaxRepY and every list of samples or of tiles
InitAssemble ==
  /\ variant = "ccd"
  /\ rep \in (1..MaxRepX) \X (1..MaxRepY)
  /\ max_acq = 1
  /\ leech_k = NoLeech
  /\ dc = FALSE
  /\ nfr = 1
  /\ InitObjects
  /\ spos = StageCentre(rep)
  /\ pcall \in Calls2D(rep) \cup CallsTiles(rep)

\* roi.value: every rectangle of the field of view whose corners are
\* multiples of 1/MaxRoiDen
Rois == {r \in (0..MaxRoiDen) \X (0..MaxRoiDen) \X (0..MaxRoiDen) \X (0..MaxRoiDen) :
           r[1] < r[3] /\ r[2] < r[4]}

\* One call of _get_center_pxs, by _assemble2DData (sub_shape (1, 1), a first
\* sample of one value) or by _assembleTiles (the shape of the first tile),
\* for every ROI and every grid up to MaxRepX x MaxRepY
CallsCenter ==
  {[f |-> "_get_center_pxs", roi |-> roi, den |-> MaxRoiDen, sub |-> ts,
    data |-> <<[shape |-> ts, flat |-> [k \in 1..(ts[1] * ts[2]) |-> 0], pos |-> p, pxs |-> <<1, 1>>]>>,
    ret |-> Pending] :
     roi \in Rois, ts \in {<<t, t>> : t \in 1..MaxTile}, p \in {<<0, 0>>, FirstPos}}
InitCenter ==
  /\ variant = "ccd"
  /\ rep \in (1..MaxRepX) \X (1..MaxRepY)
  /\ max_acq = 1
  /\ leech_k = NoLeech
  /\ dc = FALSE
  /\ nfr = 1
  /\ InitObjects
  /\ spos = StageCentre(rep)
  /\ pcall \in CallsCenter

\* where the scan stage may be when _getScanStagePositions is called, in
\* pixels along each axis: at the centre, at both ends, one pixel from them
StagePlaces == {-8, -7, 0, 7, 8}

\* One call of _getScanStagePositions, for every ROI, every grid up to
\* MaxRepX x MaxRepY and each of these positions of the stage
InitStagePos ==
  /\ variant = "stage"
  /\ rep \in (1..MaxRepX) \X (1..MaxRepY)
  /\ max_acq = 1
  /\ leech_k = NoLeech
  /\ dc = FALSE
  /\ nfr = 1
  /\ InitObjects
  /\ \E roi \in Rois :
       pcall = [f |-> "_getScanStagePositions", roi |-> roi, den |-> MaxRoiDen, ret |-> Pending]
  /\ \E p \in StagePlaces \X StagePlaces :
       spos = <<p[1] * 2 * rep[1] * MaxRoiDen, p[2] * 2 * rep[2] * MaxRoiDen>>

\* -------------------------------------------------------------- helpers
Goto(w, p) == wk' = [wk EXCEPT ![w].pc = p]
Raise(w, e) ==
  wk' = [wk EXCEPT ![w].pc = "exc_unsub", ![w].exc = e, ![w].raised = e,
                   ![w].excst = acq_state]

\* "if self._acq_state == CANCELLED: raise CancelledError()"
CheckCancelled(w, next) ==
  IF acq_state = "CANCELLED" THEN Raise(w, "Cancelled") ELSE Goto(w, next)

\* future.done()
Done(a) == fut[a] \in {"CANCELLED", "RESULT", "EXCEPTION"}

\* the worker is executing _runAcquisition
Executing(w) == wk[w].pc \notin {"idle", "thread", "bind_end", "dead"}

\* dataflow.synchronizedOn(None): the pending trigger is forgotten once no
\* dataflow listens to _trigger any more
Unsync(S) ==
  /\ synced' = [k \in Streams |-> synced[k] /\ k \notin S]
  /\ trig' = (trig /\ \E k \in Streams \ S : synced[k])

\* for s, sub in zip(self._streams, self._subscribers): s._dataflow.unsubscribe(sub)
UnsubscribeAll == subscribed' = [k \in Streams |-> FALSE]

EmptyData == [k \in Streams |-> <<>>]

\* ad[:] = ad[:n]
Truncate(ad, n) == IF Len(ad) <= n THEN ad ELSE SubSeq(ad, 1, n)

\* ------------------------------------------------- caller: acquire()
\* The acquisition started by the next successful acquire()
NextAcq == CHOOSE a \in Acqs : fut[a] = "NONE" /\ \A b \in Acqs : b < a => fut[b] # "NONE"
Busy == current_future # 0 /\ ~Done(current_future)

\* acquire() raising IOError("Cannot do multiple acquisitions simultaneously").
\* The check comes after prepare() and after _linkHwVAs() on every sub-stream.
AcquireBusy ==
  /\ cl.pc = "idle"
  /\ Busy
  /\ linked' = TRUE
  /\ UNCHANGED <<setting, light, engine, hw, wk, fut, cl>>

\* acquire() succeeding. _acq_thread is never assigned by this class, so the
\* "wait for the previous acquisition" join of lines 276-281 never runs.
Acquire ==
  /\ cl.pc = "idle"
  /\ ~Busy
  /\ \E a \in 1..max_acq : fut[a] = "NONE"
  /\ LET a == NextAcq IN
       /\ current_future' = a
       /\ acq_state' = "RUNNING"
       /\ prog' = 0
       /\ fut' = [fut EXCEPT ![a] = "PENDING"]
       /\ wk' = [wk EXCEPT ![a].pc = "thread"]
  /\ linked' = TRUE
  /\ UNCHANGED <<setting, light, acq_done, acq_complete, acq_data, raw, anchor_raw, hw, cl>>

\* ------------------------------------- caller: future.cancel()
\* ProgressiveFuture.cancel() on a future whose task is running calls the
\* task_canceller, _cancelAcquisition
FutureCancel(a) ==
  /\ cl.pc = "idle"
  /\ fut[a] = "RUNNING"
  /\ cl' = [cl EXCEPT !.pc = "c_lock", !.f = a]
  /\ UNCHANGED <<conf, engine, hw, wk, fut>>

\* ProgressiveFuture.cancel() on a future whose task has not started: the
\* future is cancelled and the task will never run
FutureCancelPending(a) ==
  /\ cl.pc = "idle"
  /\ fut[a] = "PENDING"
  /\ fut' = [fut EXCEPT ![a] = "CANCELLED"]
  /\ UNCHANGED <<conf, engine, hw, wk, cl>>

\* a cancel that does not look at the state
CancelLockAlways ==
  /\ cl.pc = "c_lock"
  /\ acq_state' = "CANCELLED"
  /\ cl' = [cl EXCEPT !.pc = "c_unsub"]
  /\ UNCHANGED <<conf, acq_done, acq_complete, acq_data, raw, anchor_raw, current_future, prog, hw, wk, fut>>

\* with self._acq_lock: if FINISHED return False; self._acq_state = CANCELLED
CancelLock ==
  /\ cl.pc = "c_lock"
  /\ IF acq_state = "FINISHED"
       THEN /\ cl' = [cl EXCEPT !.pc = "idle"]
            /\ UNCHANGED acq_state
       ELSE /\ acq_state' = "CANCELLED"
            /\ cl' = [cl EXCEPT !.pc = "c_unsub"]
  /\ UNCHANGED <<conf, acq_done, acq_complete, acq_data, raw, anchor_raw, current_future, prog, hw, wk, fut>>

\* unsubscribe every subscriber; self._df0.synchronizedOn(None)
CancelUnsub ==
  /\ cl.pc = "c_unsub"
  /\ UnsubscribeAll
  /\ Unsync({SEM})
  /\ cl' = [cl EXCEPT !.pc = "c_set"]
  /\ UNCHANGED <<conf, engine, inflight, translation, spos, wk, fut>>

\* for i in range(len(self._streams)): self._acq_complete[i].set()
CancelSet ==
  /\ cl.pc = "c_set"
  /\ acq_complete' = [k \in Streams |-> TRUE]
  /\ cl' = [cl EXCEPT !.pc = "c_wait"]
  /\ UNCHANGED <<conf, acq_state, acq_done, acq_data, raw, anchor_raw, current_future, prog, hw, wk, fut>>

\* _cancelAcquisition returned True: the future becomes CANCELLED
CancelReturn ==
  /\ cl' = [cl EXCEPT !.pc = "idle"]
  /\ fut' = [fut EXCEPT ![cl.f] = IF Done(cl.f) THEN @ ELSE "CANCELLED"]
  /\ wk' = [wk EXCEPT ![cl.f].ctrue = TRUE]
  /\ UNCHANGED <<conf, engine, hw>>

\* self._acq_done.wait(5) returning because the event is set
CancelWait ==
  /\ cl.pc = "c_wait"
  /\ acq_done
  /\ CancelReturn

\* self._acq_done.wait(5) returning because the 5 s are over
CancelTimeout ==
  /\ cl.pc = "c_wait"
  /\ ~acq_done
  /\ CancelReturn

Caller == AcquireBusy \/ Acquire

Canceller ==
  \/ \E a \in Acqs : FutureCancel(a)
  \/ \E a \in Acqs : FutureCancelPending(a)
  \/ CancelLock
  \/ CancelUnsub
  \/ CancelSet
  \/ CancelWait
  \/ CancelTimeout

\* ------------------------------------------ detectors and dataflows
\* Dataflow k hands a new frame to the engine's subscriber. A dataflow that
\* is synchronised acquires one frame per trigger; the others run freely
\* while subscribed. The frame is stamped with the current time, so it is
\* not earlier than _acq_min_date; pos is its MD_POS, where the beam was.
\* The detectors of BeamSync are all driven by the scan of the e-beam: the
\* scan a trigger starts gives a frame to each of them that is subscribed.
NewFrame == [st |-> "new", early |-> FALSE, pos |-> translation]

Produce(k) ==
  /\ subscribed[k]
  /\ inflight[k].st = "none"
  /\ synced[k] => trig
  /\ IF variant = "sem"
       THEN /\ k = SEM
            /\ synced[k]
            /\ inflight' = [j \in Streams |->
                              IF subscribed[j] /\ inflight[j].st = "none"
                                THEN NewFrame ELSE inflight[j]]
       ELSE inflight' = [inflight EXCEPT ![k] = NewFrame]
  /\ trig' = (trig /\ ~synced[k])
  /\ UNCHANGED <<conf, engine, subscribed, synced, translation, spos, wk, fut, cl>>

\* _onData, taken as one step: the data acquired before _acq_min_date is
\* dropped; else, if the completion event of the stream is not set, the data
\* is stored and the event set. The frame was acquired (and dated) when
\* Produce took it, and the callback may run any time later.
OnData(k) ==
  /\ inflight[k].st = "new"
  /\ IF inflight[k].early \/ acq_complete[k]
       THEN UNCHANGED <<acq_data, acq_complete>>
       ELSE /\ acq_data' = [acq_data EXCEPT ![k] = Append(@, inflight[k].pos)]
            /\ acq_complete' = [acq_complete EXCEPT ![k] = TRUE]
  /\ inflight' = [inflight EXCEPT ![k] = NoFrame]
  /\ UNCHANGED <<conf, acq_state, acq_done, raw, anchor_raw, current_future, prog,
                 subscribed, synced, trig, translation, spos, wk, fut, cl>>

Detectors == \E k \in Streams : Produce(k) \/ OnData(k)

\* ------------------------------------------------ worker thread
W(w) == wk[w]
Log(w, e) == Append(wk[w].ev, e)

\* executeAsyncTask: the thread starts the task unless the future was
\* cancelled before (set_running_or_notify_cancel)
ThreadStart(w) ==
  /\ W(w).pc = "thread"
  /\ IF fut[w] = "PENDING"
       THEN /\ fut' = [fut EXCEPT ![w] = "RUNNING"]
            /\ Goto(w, "start")
       ELSE /\ Goto(w, "dead")
            /\ UNCHANGED fut
  /\ UNCHANGED <<conf, engine, hw, cl>>

\* self._acq_done.clear(); the scan stage worker reads orig_spos before
ClearDone(w) ==
  /\ W(w).pc = "start"
  /\ acq_done' = FALSE
  /\ wk' = [wk EXCEPT ![w].pc = "setup", ![w].orig = spos, ![w].prev = spos]
  /\ UNCHANGED <<conf, acq_state, acq_complete, acq_data, raw, anchor_raw, current_future, prog, hw, fut, cl>>

\* the positions are computed (_getScanStagePositions raises ValueError when
\* the ROI goes outside the range of the scan stage);
\* self._acq_data = [[] for _ in self._streams]; self._raw = [];
\* self._anchor_raw = []
Setup(w) ==
  /\ W(w).pc = "setup"
  /\ IF variant = "stage" /\ ~StageInRange(rep, spos)
       THEN /\ Raise(w, "ValueError")
            /\ UNCHANGED <<acq_data, raw, anchor_raw>>
       ELSE /\ acq_data' = EmptyData
            /\ raw' = <<>>
            /\ anchor_raw' = <<>>
            /\ wk' = [wk EXCEPT ![w].pc = "leech_start", ![w].base = spos]
  /\ UNCHANGED <<conf, acq_state, acq_done, acq_complete, current_future, prog, hw, fut, cl>>

\* a worker that runs the leech after the first pixel whatever start() said
LeechStartOne(w) ==
  /\ W(w).pc = "leech_start"
  /\ wk' = [wk EXCEPT ![w].np = IF leech_k = NoLeech THEN NoLeech ELSE 1,
                      ![w].pc = IF variant = "sem" THEN "blk_next" ELSE "sync_ccd"]
  /\ UNCHANGED <<conf, engine, hw, fut, cl>>

\* np = l.start(...), or None when it raises; leech_np.append(np)
LeechStart(w) ==
  /\ W(w).pc = "leech_start"
  /\ wk' = [wk EXCEPT ![w].np = leech_k,
                      ![w].pc = IF variant = "sem" THEN "blk_next" ELSE "sync_ccd"]
  /\ UNCHANGED <<conf, engine, hw, fut, cl>>

\* self._ccd_df.synchronizedOn(self._trigger); self._ccd_df.subscribe(...)
SyncCcd(w) ==
  /\ W(w).pc = "sync_ccd"
  /\ synced' = [synced EXCEPT ![CCD] = TRUE]
  /\ subscribed' = [subscribed EXCEPT ![CCD] = TRUE]
  /\ Goto(w, "px_next")
  /\ UNCHANGED <<conf, engine, trig, inflight, translation, spos, fut, cl>>

\* Where the hardware is sent for the pixel of index i = (y, x): the e-beam
\* to spot_pos[i], or the scan stage to stage_pos[i[::-1]]
PixelPos(w, i) ==
  IF variant = "stage" THEN StagePos(rep, W(w).base, i[2], i[1])
                       ELSE SpotPos(rep, i[1], i[2])

\* a scanner that is sent to the position of the grid whatever the drift
BeamTransNoDrift(w, t) == ClipTrans(rep, t)

\* trans - tot_drift when there is a drift corrector, clipped to the range
\* of the translation
BeamTrans(w, t) ==
  ClipTrans(rep, IF dc THEN <<t[1] - W(w).drift[1] * Scale(rep, 1),
                               t[2] - W(w).drift[2] * Scale(rep, 2)>>
                       ELSE t)

\* cspos: spos - drift_shift, with drift_shift = (drift_x, -drift_y) pixels,
\* brought into the range of the axes of the scan stage
StageTrans(w, sp) ==
  LET c == IF dc THEN <<sp[1] - W(w).drift[1] * Scale(rep, 1),
                        sp[2] + W(w).drift[2] * Scale(rep, 2)>>
                 ELSE sp
  IN  <<Clip(c[1], StageRng[1] * Scale(rep, 1), StageRng[3] * Scale(rep, 1)),
        Clip(c[2], StageRng[2] * Scale(rep, 2), StageRng[4] * Scale(rep, 2))>>

\* "for a, p in cspos.items(): if prev_spos[a] == p: del cspos[a]" and
\* sstage.moveAbsSync(cspos): only the axes whose target is not the one of
\* the last move are moved
StageTargets(w, c) == {<<a, c[a]>> : a \in {a \in 1..2 : W(w).prev[a] # c[a]}}
StageMove(w, c) ==
  <<IF W(w).prev[1] = c[1] THEN spos[1] ELSE c[1],
    IF W(w).prev[2] = c[2] THEN spos[2] ELSE c[2]>>

\* "for i in numpy.ndindex(*rep[::-1])": the next pixel, if any; the e-beam
\* translation is written, or the stage moved (moveAbsSync); failures = 0
PxNext(w) ==
  /\ W(w).pc = "px_next"
  /\ IF NdDone(NdShape(rep), W(w).i)
       THEN /\ Goto(w, "done_unsub")
            /\ UNCHANGED <<translation, spos>>
       ELSE /\ IF variant = "stage"
                 THEN /\ spos' = StageMove(w, StageTrans(w, PixelPos(w, W(w).i)))
                      /\ UNCHANGED translation
                 ELSE translation' = BeamTrans(w, PixelPos(w, W(w).i)) /\ UNCHANGED spos
            /\ wk' = [wk EXCEPT ![w].pc = "att_start", ![w].failures = 0,
                                ![w].lastmove = IF variant = "stage" THEN "pixel" ELSE @,
                                ![w].prev = IF variant = "stage"
                                              THEN StageTrans(w, PixelPos(w, W(w).i)) ELSE @,
                                ![w].tgts = IF variant = "stage"
                                              THEN @ \cup StageTargets(w, StageTrans(w, PixelPos(w, W(w).i)))
                                              ELSE @,
                                ![w].ev = <<"trans">>,
                                ![w].order = Append(@, <<W(w).i, PixelPos(w, W(w).i)>>),
                                ![w].att = 0]
  /\ UNCHANGED <<conf, engine, subscribed, synced, trig, inflight, fut, cl>>

\* self._acq_min_date = time.time(): what was acquired before is too early
MarkEarly == [k \in Streams |-> [inflight[k] EXCEPT !.early = (inflight[k].st = "new")]]

\* start of an attempt: _acq_min_date = start; for ce in _acq_complete: ce.clear()
AttStart(w) ==
  /\ W(w).pc = "att_start"
  /\ inflight' = MarkEarly
  /\ acq_complete' = [k \in Streams |-> FALSE]
  /\ Goto(w, "att_chk1")
  /\ UNCHANGED <<conf, acq_state, acq_done, acq_data, raw, anchor_raw, current_future, prog,
                 subscribed, synced, trig, translation, spos, fut, cl>>

\* a worker that forgets to subscribe the primaries before the trigger
AttChk1NoSub(w) ==
  /\ W(w).pc = "att_chk1"
  /\ CheckCancelled(w, "att_notify")
  /\ UNCHANGED <<conf, engine, hw, fut, cl>>

\* the check between the clearing of the events and the subscription
AttChk1(w) ==
  /\ W(w).pc = "att_chk1"
  /\ CheckCancelled(w, "att_sub")
  /\ UNCHANGED <<conf, engine, hw, fut, cl>>

\* for s, sub in zip(_streams[:-1], _subscribers[:-1]): s._dataflow.subscribe(sub)
AttSub(w) ==
  /\ W(w).pc = "att_sub"
  /\ subscribed' = [k \in Streams |-> subscribed[k] \/ k # CCD]
  /\ wk' = [wk EXCEPT ![w].pc = "att_notify", ![w].ev = Log(w, "sub")]
  /\ UNCHANGED <<conf, engine, synced, trig, inflight, translation, spos, fut, cl>>

\* self._trigger.notify(): seen by the dataflows synchronised on the trigger
Notify == trig' = (\E k \in Streams : synced[k])

AttNotify(w) ==
  /\ W(w).pc = "att_notify"
  /\ Notify
  /\ wk' = [wk EXCEPT ![w].pc = "att_wait", ![w].ev = Log(w, "notify"),
                      ![w].att = @ + 1]
  /\ UNCHANGED <<conf, engine, subscribed, synced, inflight, translation, spos, fut, cl>>

\* timedout = not self._acq_complete[-1].wait(...): the event is set
AttWait(w) ==
  /\ W(w).pc = "att_wait"
  /\ acq_complete[CCD]
  /\ wk' = [wk EXCEPT ![w].pc = "att_chk2", ![w].timedout = FALSE,
                      ![w].ev = Log(w, "ccd")]
  /\ UNCHANGED <<conf, engine, hw, fut, cl>>

\* ... the waits end at endt with the event not set
AttWaitTimeout(w) ==
  /\ W(w).pc = "att_wait"
  /\ ~acq_complete[CCD]
  /\ wk' = [wk EXCEPT ![w].pc = "att_chk2", ![w].timedout = TRUE]
  /\ UNCHANGED <<conf, engine, hw, fut, cl>>

AttChk2(w) ==
  /\ W(w).pc = "att_chk2"
  /\ CheckCancelled(w, "att_eval")
  /\ UNCHANGED <<conf, engine, hw, fut, cl>>

\* "if timedout or dur < rep_time * 0.95": the attempt failed; the third
\* failure raises IOError, the others unsubscribe everything and drop the
\* data of the attempt (ad[:] = ad[:n])
AttEvalUpTo(w, limit) ==
  /\ W(w).pc = "att_eval"
  /\ \E too_fast \in BOOLEAN :
       IF W(w).timedout \/ too_fast
         THEN IF W(w).failures + 1 >= limit
                THEN /\ wk' = [wk EXCEPT ![w].pc = "exc_unsub", ![w].exc = "IOError",
                                         ![w].raised = "IOError",
                                         ![w].excst = acq_state, ![w].failures = @ + 1]
                     /\ UNCHANGED <<subscribed, acq_data>>
                ELSE /\ UnsubscribeAll
                     /\ acq_data' = [k \in Streams |-> Truncate(acq_data[k], W(w).n)]
                     /\ wk' = [wk EXCEPT ![w].pc = "att_resub", ![w].failures = @ + 1,
                                         ![w].ev = <<"trans">>]
         ELSE /\ Goto(w, "sem_wait")
              /\ UNCHANGED <<subscribed, acq_data>>
  /\ UNCHANGED <<conf, acq_state, acq_done, acq_complete, raw, anchor_raw, current_future, prog,
                 synced, trig, inflight, translation, spos, fut, cl>>

\* a worker that gives up one failure too late
AttEvalLate(w) == AttEvalUpTo(w, MaxFailures + 1)
AttEval(w) == AttEvalUpTo(w, MaxFailures)

\* time.sleep(1); self._ccd_df.subscribe(self._subscribers[-1]); continue
AttResub(w) ==
  /\ W(w).pc = "att_resub"
  /\ subscribed' = [subscribed EXCEPT ![CCD] = TRUE]
  /\ Goto(w, "att_start")
  /\ UNCHANGED <<conf, engine, synced, trig, inflight, translation, spos, fut, cl>>

\* a worker that leaves the primaries subscribed after their data came
SemWaitKeep(w) ==
  /\ W(w).pc = "sem_wait"
  /\ acq_complete[SEM]
  /\ wk' = [wk EXCEPT ![w].pc = "att_chk3", ![w].ev = Log(w, "sem") \o <<"unsub">>]
  /\ UNCHANGED <<conf, engine, hw, fut, cl>>

\* "if not ce.wait(sem_time * 1.5 + 5)" with the event set: unsubscribe
SemWait(w) ==
  /\ W(w).pc = "sem_wait"
  /\ acq_complete[SEM]
  /\ subscribed' = [k \in Streams |-> subscribed[k] /\ k = CCD]
  /\ wk' = [wk EXCEPT ![w].pc = "att_chk3", ![w].ev = Log(w, "sem") \o <<"unsub">>]
  /\ UNCHANGED <<conf, engine, synced, trig, inflight, translation, spos, fut, cl>>

\* a worker that counts the timeout of a primary as a failure of the attempt
SemTimeoutRetry(w) ==
  /\ W(w).pc = "sem_wait"
  /\ ~acq_complete[SEM]
  /\ wk' = [wk EXCEPT ![w].pc = "att_start", ![w].failures = @ + 1]
  /\ UNCHANGED <<conf, engine, hw, fut, cl>>

\* ... the wait ends with the event not set: TimeoutError
SemTimeout(w) ==
  /\ W(w).pc = "sem_wait"
  /\ ~acq_complete[SEM]
  /\ Raise(w, "TimeoutError")
  /\ UNCHANGED <<conf, engine, hw, fut, cl>>

AttChk3(w) ==
  /\ W(w).pc = "att_chk3"
  /\ CheckCancelled(w, "att_store")
  /\ UNCHANGED <<conf, engine, hw, fut, cl>>

\* _updateProgress: nothing for current <= 1, else future.set_progress(...)
UpdateProgress(current) == prog' = IF current <= 1 THEN prog ELSE prog + 1

\* The MD_POS of the last data is corrected (IndexError when a list is
\* empty): raw_pos + drift_shift (Y upside down) on the CCD data, or
\* raw_pos + strans on the data of every stream (scan stage); n += 1; self._updateProgress(future, ..., n, ...)
Last(q) == q[Len(q)]
SetLast(q, v) == [q EXCEPT ![Len(q)] = v]
CorPos(w) ==
  LET raw_pos == Last(acq_data[SEM])
      sp == PixelPos(w, W(w).i)
  IN  IF variant = "stage"
        THEN <<raw_pos[1] + (sp[1] - W(w).orig[1]),
               raw_pos[2] + (sp[2] - W(w).orig[2])>>
        ELSE IF dc THEN <<raw_pos[1] + W(w).drift[1] * Scale(rep, 1),
                          raw_pos[2] - W(w).drift[2] * Scale(rep, 2)>>
                   ELSE raw_pos

AttStore(w) ==
  /\ W(w).pc = "att_store"
  /\ IF \E k \in Streams : acq_data[k] = <<>>
       THEN /\ Raise(w, "IndexError")
            /\ UNCHANGED <<acq_data, prog>>
       ELSE /\ acq_data' = [k \in Streams |->
                              IF variant = "stage" \/ k = CCD
                                THEN SetLast(acq_data[k], CorPos(w))
                                ELSE acq_data[k]]
            /\ UpdateProgress(W(w).n + 1)
            /\ wk' = [wk EXCEPT ![w].pc = "leech", ![w].n = @ + 1,
                                ![w].ev = Log(w, "count"),
                                ![w].got = [k \in Streams |-> Last(acq_data[k])]]
  /\ UNCHANGED <<conf, acq_state, acq_done, acq_complete, raw, anchor_raw, current_future, hw, fut, cl>>

\* "Check if it's time to run a leech": leech_np[li] -= 1 (-= npixels in
\* BeamSync, not below 0); at 0, np = l.next(...); leech_np[li] = np. The
\* next() of a drift corrector updates its tot_drift; for it the scan stage
\* is moved back to orig_spos before.
\* this leech is the drift corrector of a scan stage acquisition and is due
StageLeechDue(w) ==
  variant = "stage" /\ dc /\ W(w).np # NoLeech /\ W(w).np - 1 = 0

\* a worker that moves the stage back without noting it in prev_spos
LeechBackKeepPrev(w) ==
  /\ W(w).pc = "leech" /\ StageLeechDue(w)
  /\ spos' = W(w).orig
  /\ wk' = [wk EXCEPT ![w].pc = "leech_back", ![w].lastmove = "leech",
                      ![w].tgts = @ \cup {<<1, W(w).orig[1]>>, <<2, W(w).orig[2]>>}]
  /\ UNCHANGED <<conf, engine, subscribed, synced, trig, inflight, translation, fut, cl>>

\* "if isinstance(l, AnchorDriftCorrector): sstage.moveAbsSync(orig_spos);
\* prev_spos.update(orig_spos)"
LeechBack(w) ==
  /\ W(w).pc = "leech" /\ StageLeechDue(w)
  /\ spos' = W(w).orig
  /\ wk' = [wk EXCEPT ![w].pc = "leech_back", ![w].lastmove = "leech", ![w].prev = W(w).orig,
                      ![w].tgts = @ \cup {<<1, W(w).orig[1]>>, <<2, W(w).orig[2]>>}]
  /\ UNCHANGED <<conf, engine, subscribed, synced, trig, inflight, translation, fut, cl>>

Leech(w) ==
  /\ W(w).pc \in {"leech", "blk_leech", "leech_back"}
  /\ W(w).pc = "leech" => ~StageLeechDue(w)
  /\ LET sem == W(w).pc = "blk_leech"
         left == IF sem THEN (IF W(w).np < W(w).npx THEN 0 ELSE W(w).np - W(w).npx)
                        ELSE W(w).np - 1
         cont == IF sem THEN "blk_next" ELSE "px_next"
         nxt == IF sem THEN W(w).i ELSE NdNext(NdShape(rep), W(w).i)
     IN  IF W(w).np = NoLeech
           THEN wk' = [wk EXCEPT ![w].pc = cont, ![w].i = nxt]
           ELSE IF left = 0
                  THEN \E d \in IF dc THEN Drifts ELSE {W(w).drift} :
                            wk' = [wk EXCEPT ![w].pc = IF sem THEN "blk_lchk" ELSE "leech_chk",
                                             ![w].np = leech_k,
                                             ![w].nexts = @ \cup {W(w).n},
                                             ![w].drift = d]
                  ELSE /\ wk' = [wk EXCEPT ![w].pc = cont, ![w].i = nxt, ![w].np = left]
  /\ UNCHANGED <<conf, engine, hw, fut, cl>>

\* l.next(...) raising when the leech is due: "except Exception: np = 1",
\* to try again after the next pixel; nfail holds the numbers of pixels after
\* which next() raised, at most MaxLeechFail of them
LeechFailWith(w, again) ==
  /\ W(w).pc \in {"leech", "blk_leech", "leech_back"}
  /\ W(w).pc = "leech" => ~StageLeechDue(w)
  /\ W(w).np # NoLeech
  /\ (IF W(w).pc = "blk_leech"
        THEN (IF W(w).np < W(w).npx THEN 0 ELSE W(w).np - W(w).npx)
        ELSE W(w).np - 1) = 0
  /\ Cardinality(W(w).nfail) < MaxLeechFail
  /\ wk' = [wk EXCEPT ![w].pc = IF W(w).pc = "blk_leech" THEN "blk_lchk" ELSE "leech_chk",
                      ![w].np = again,
                      ![w].nexts = @ \cup {W(w).n},
                      ![w].nfail = @ \cup {W(w).n}]
  /\ UNCHANGED <<conf, engine, hw, fut, cl>>

\* a worker that waits for the usual number of pixels after a failure
LeechFailK(w) == LeechFailWith(w, leech_k)
LeechFail(w) == LeechFailWith(w, 1)

\* the check after l.next(...), then the next pixel (or block)
LeechChk(w) ==
  /\ W(w).pc \in {"leech_chk", "blk_lchk"}
  /\ IF acq_state = "CANCELLED"
       THEN Raise(w, "Cancelled")
       ELSE wk' = [wk EXCEPT ![w].pc = IF W(w).pc = "blk_lchk" THEN "blk_next" ELSE "px_next",
                             ![w].i = IF W(w).pc = "blk_lchk" THEN @
                                      ELSE NdNext(NdShape(rep), @)]
  /\ UNCHANGED <<conf, engine, hw, fut, cl>>

\* "Done!": unsubscribe every subscriber; self._ccd_df.synchronizedOn(None)
DoneUnsub(w) ==
  /\ W(w).pc = "done_unsub"
  /\ UnsubscribeAll
  /\ Unsync({CCD})
  /\ Goto(w, "done_lock")
  /\ UNCHANGED <<conf, engine, inflight, translation, spos, fut, cl>>

\* a worker that finishes without looking at the state
DoneLockNoCheck(w) ==
  /\ W(w).pc = "done_lock"
  /\ acq_state' = "FINISHED"
  /\ wk' = [wk EXCEPT ![w].pc = "assemble", ![w].fin = TRUE]
  /\ UNCHANGED <<conf, acq_done, acq_complete, acq_data, raw, anchor_raw, current_future, prog, hw, fut, cl>>

\* with self._acq_lock: if CANCELLED raise CancelledError(); _acq_state = FINISHED
DoneLock(w) ==
  /\ W(w).pc = "done_lock"
  /\ IF acq_state = "CANCELLED"
       THEN /\ Raise(w, "Cancelled")
            /\ UNCHANGED acq_state
       ELSE /\ acq_state' = "FINISHED"
            /\ wk' = [wk EXCEPT ![w].pc = "assemble", ![w].fin = TRUE]
  /\ UNCHANGED <<conf, acq_done, acq_complete, acq_data, raw, anchor_raw, current_future, prog, hw, fut, cl>>

\* for n, das in enumerate(self._acq_data): self._onCompletedData(n, das)
Assemble(w) ==
  /\ W(w).pc = "assemble"
  /\ raw' = [k \in Streams |-> acq_data[k]]
  /\ Goto(w, "complete")
  /\ UNCHANGED <<conf, acq_state, acq_done, acq_complete, acq_data, anchor_raw,
                 current_future, prog, hw, fut, cl>>

\* a worker that leaves out the leech it had disabled at start()
LeechCompleteEnabled(w) ==
  /\ W(w).pc = "complete"
  /\ wk' = [wk EXCEPT ![w].pc = IF variant = "stage" THEN "fin_park" ELSE "fin_unlink",
                      ![w].completes = IF W(w).np = NoLeech THEN @ ELSE @ + 1,
                      ![w].cok = @ /\ acq_state = "FINISHED" /\ raw # <<>>]
  /\ anchor_raw' = IF dc THEN Append(anchor_raw, "anchor") ELSE anchor_raw
  /\ UNCHANGED <<conf, acq_state, acq_done, acq_complete, acq_data, raw,
                 current_future, prog, hw, fut, cl>>

\* for l in self.leeches: l.complete(self.raw); with a drift corrector,
\* self._anchor_raw.append(self._assembleAnchorData(self._dc_estimator.raw))
LeechComplete(w) ==
  /\ W(w).pc = "complete"
  /\ wk' = [wk EXCEPT ![w].pc = IF variant = "stage" THEN "fin_park" ELSE "fin_unlink",
                      ![w].completes = @ + 1,
                      ![w].cok = @ /\ acq_state = "FINISHED" /\ raw # <<>>]
  /\ anchor_raw' = IF dc THEN Append(anchor_raw, "anchor") ELSE anchor_raw
  /\ UNCHANGED <<conf, acq_state, acq_done, acq_complete, acq_data, raw,
                 current_future, prog, hw, fut, cl>>

\* a worker whose except block leaves the synchronisation on the trigger
ExcUnsubKeepSync(w) ==
  /\ W(w).pc = "exc_unsub"
  /\ UnsubscribeAll
  /\ raw' = <<>>
  /\ anchor_raw' = <<>>
  /\ Goto(w, "exc_conv")
  /\ UNCHANGED <<conf, acq_state, acq_done, acq_complete, acq_data, current_future, prog,
                 synced, trig, inflight, translation, spos, fut, cl>>

\* except: unsubscribe every subscriber; synchronizedOn(None) on the CCD
\* dataflow (on _df0 in BeamSync); self._raw = []; self._anchor_raw = []
ExcUnsub(w) ==
  /\ W(w).pc = "exc_unsub"
  /\ UnsubscribeAll
  /\ Unsync({IF variant = "sem" THEN SEM ELSE CCD})
  /\ raw' = <<>>
  /\ anchor_raw' = <<>>
  /\ Goto(w, "exc_conv")
  /\ UNCHANGED <<conf, acq_state, acq_done, acq_complete, acq_data, current_future, prog,
                 inflight, translation, spos, fut, cl>>

\* an except block that re-raises what it caught
ExcReraise(w) ==
  /\ W(w).pc = "exc_conv"
  /\ wk' = [wk EXCEPT ![w].pc = IF variant = "stage" THEN "fin_park" ELSE "fin_unlink"]
  /\ UNCHANGED <<conf, engine, hw, fut, cl>>

\* "if not isinstance(exp, CancelledError) and self._acq_state == CANCELLED:
\*  raise CancelledError()", else raise
ExcConv(w) ==
  /\ W(w).pc = "exc_conv"
  /\ wk' = [wk EXCEPT ![w].pc = IF variant = "stage" THEN "fin_park" ELSE "fin_unlink",
                      ![w].exc = IF acq_state = "CANCELLED" THEN "Cancelled" ELSE @]
  /\ UNCHANGED <<conf, engine, hw, fut, cl>>

\* a finally block that leaves the scan stage where it is
FinParkSkip(w) ==
  /\ W(w).pc = "fin_park"
  /\ Goto(w, "fin_unlink")
  /\ UNCHANGED <<conf, engine, hw, fut, cl>>

\* finally (scan stage): sstage.moveAbs(pos0).result()
FinPark(w) ==
  /\ W(w).pc = "fin_park"
  /\ spos' = StageCentre(rep)
  /\ wk' = [wk EXCEPT ![w].pc = "fin_unlink", ![w].lastmove = "park",
                      ![w].tgts = @ \cup {<<1, StageCentre(rep)[1]>>, <<2, StageCentre(rep)[2]>>}]
  /\ UNCHANGED <<conf, engine, subscribed, synced, trig, inflight, translation, fut, cl>>

\* finally (scan stage): sstage.moveAbs(pos0).result() raising, the stage
\* having moved or not: the exception leaves the finally block there and
\* _runAcquisitionScanStage with it
FinParkFail(w) ==
  /\ W(w).pc = "fin_park"
  /\ spos' \in {spos, StageCentre(rep)}
  /\ wk' = [wk EXCEPT ![w].pc = "bind_end", ![w].exc = "HwError",
                      ![w].raised = "HwError", ![w].result = "HwError",
                      ![w].tgts = @ \cup {<<1, StageCentre(rep)[1]>>, <<2, StageCentre(rep)[2]>>}]
  /\ UNCHANGED <<conf, engine, subscribed, synced, trig, inflight, translation, fut, cl>>

\* finally: for s in self._streams: s._unlinkHwVAs()
FinUnlink(w) ==
  /\ W(w).pc = "fin_unlink"
  /\ linked' = FALSE
  /\ Goto(w, IF variant = "fluo" THEN "f_fin" ELSE "fin_reset")
  /\ UNCHANGED <<setting, light, engine, hw, fut, cl>>

\* finally: self._acq_data = [[] ...]; self._current_future = None
FinReset(w) ==
  /\ W(w).pc = "fin_reset"
  /\ acq_data' = EmptyData
  /\ current_future' = 0
  /\ Goto(w, "fin_done")
  /\ UNCHANGED <<conf, acq_state, acq_done, acq_complete, raw, anchor_raw, prog, hw, fut, cl>>

\* finally: self._acq_done.set(); _runAcquisition returns self.raw or raises
FinDone(w) ==
  /\ W(w).pc = "fin_done"
  /\ acq_done' = TRUE
  /\ wk' = [wk EXCEPT ![w].pc = "bind_end",
                      ![w].result = IF W(w).exc = "none" THEN "data" ELSE W(w).exc]
  /\ UNCHANGED <<conf, acq_state, acq_complete, acq_data, raw, anchor_raw, current_future, prog, hw, fut, cl>>

\* executeAsyncTask: the outcome of the task becomes the outcome of the
\* future, unless the future is already cancelled
BindEnd(w) ==
  /\ W(w).pc = "bind_end"
  /\ fut' = [fut EXCEPT ![w] =
               IF @ = "CANCELLED" \/ W(w).result = "Cancelled" THEN "CANCELLED"
               ELSE IF W(w).result = "data" THEN "RESULT" ELSE "EXCEPTION"]
  /\ Goto(w, "dead")
  /\ UNCHANGED <<conf, engine, hw, cl>>

\* ------------------------------------------------ worker thread, BeamSync
\* pos_flat = spot_pos.reshape((-1, 2)): the pixel number k is at
\* (y, x) = (k div rep_x, k mod rep_x)
PosFlat(r, k) == SpotPos(r, k \div r[1], k % r[1])

\* tuple(pos_flat[a:a + m].mean(axis=0)); the spots are 2 * Scale apart, so
\* the mean of consecutive ones is an integer
RECURSIVE SumFlat(_, _, _, _)
SumFlat(r, a, m, d) == IF m = 0 THEN 0 ELSE PosFlat(r, a)[d] + SumFlat(r, a + 1, m - 1, d)
MeanFlat(r, a, m) == <<SumFlat(r, a, m, 1) \div m, SumFlat(r, a, m, 2) \div m>>

\* "while spots_sum < tot_num": npixels is the size of the next block, at
\* most what is left until the leech; the beam goes to the centre of the
\* block; spots_sum += npixels
BlkNextWith(w, np) ==
  /\ W(w).pc = "blk_next"
  /\ IF W(w).n >= TotNum(rep)
       THEN /\ Goto(w, "done_lock")
            /\ UNCHANGED translation
       ELSE LET left == TotNum(rep) - W(w).n
                budget == IF np # NoLeech /\ np < left THEN np ELSE left
                rect == NextRectangle(NdShape(rep), W(w).n, budget)
                npixels == rect[1] * rect[2]
                trans == MeanFlat(rep, W(w).n, npixels)
            IN  /\ translation' = BeamTrans(w, trans)
                /\ wk' = [wk EXCEPT ![w].pc = "blk_clear", ![w].npx = npixels,
                                    ![w].n = @ + npixels, ![w].att = 0,
                                    ![w].order = Append(@, <<<<W(w).n, rect>>, trans>>)]
  /\ UNCHANGED <<conf, engine, subscribed, synced, trig, inflight, spos, fut, cl>>

\* a worker that sizes the block without looking at the leeches
BlkNextNoLeech(w) == BlkNextWith(w, NoLeech)
BlkNext(w) == BlkNextWith(w, W(w).np)

\* for ce in self._acq_complete: ce.clear()
BlkClear(w) ==
  /\ W(w).pc = "blk_clear"
  /\ acq_complete' = [k \in Streams |-> FALSE]
  /\ Goto(w, "blk_sync")
  /\ UNCHANGED <<conf, acq_state, acq_done, acq_data, raw, anchor_raw, current_future, prog, hw, fut, cl>>

\* self._df0.synchronizedOn(self._trigger)
BlkSync(w) ==
  /\ W(w).pc = "blk_sync"
  /\ synced' = [synced EXCEPT ![SEM] = TRUE]
  /\ Goto(w, "blk_sub")
  /\ UNCHANGED <<conf, engine, subscribed, trig, inflight, translation, spos, fut, cl>>

\* for s, sub in zip(self._streams, self._subscribers): s._dataflow.subscribe(sub)
BlkSub(w) ==
  /\ W(w).pc = "blk_sub"
  /\ subscribed' = [k \in Streams |-> TRUE]
  /\ Goto(w, "blk_notify")
  /\ UNCHANGED <<conf, engine, synced, trig, inflight, translation, spos, fut, cl>>

\* self._acq_min_date = start; self._trigger.notify()
BlkNotify(w) ==
  /\ W(w).pc = "blk_notify"
  /\ inflight' = MarkEarly
  /\ Notify
  /\ wk' = [wk EXCEPT ![w].pc = "blk_wait", ![w].j = 1, ![w].att = @ + 1]
  /\ UNCHANGED <<conf, engine, subscribed, synced, translation, spos, fut, cl>>

\* self._acq_complete[i].wait(timeout) with the event set; the check for
\* CANCELLED; s._dataflow.unsubscribe(self._subscribers[i])
BlkWait(w) ==
  /\ W(w).pc = "blk_wait"
  /\ acq_complete[W(w).j]
  /\ IF acq_state = "CANCELLED"
       THEN /\ Raise(w, "Cancelled")
            /\ UNCHANGED subscribed
       ELSE /\ subscribed' = [subscribed EXCEPT ![W(w).j] = FALSE]
            /\ wk' = [wk EXCEPT ![w].pc = IF W(w).j < NStreams THEN "blk_wait" ELSE "blk_unsync",
                                ![w].j = IF W(w).j < NStreams THEN @ + 1 ELSE @]
  /\ UNCHANGED <<conf, engine, synced, trig, inflight, translation, spos, fut, cl>>

\* ... the wait ends with the event not set: TimeoutError
BlkTimeout(w) ==
  /\ W(w).pc = "blk_wait"
  /\ ~acq_complete[W(w).j]
  /\ Raise(w, "TimeoutError")
  /\ UNCHANGED <<conf, engine, hw, fut, cl>>

\* a worker that leaves the primary dataflow synchronised
BlkUnsyncSkip(w) ==
  /\ W(w).pc = "blk_unsync"
  /\ Goto(w, "blk_chk")
  /\ UNCHANGED <<conf, engine, hw, fut, cl>>

\* "remove synchronisation": self._df0.synchronizedOn(None)
BlkUnsync(w) ==
  /\ W(w).pc = "blk_unsync"
  /\ Unsync({SEM})
  /\ Goto(w, "blk_chk")
  /\ UNCHANGED <<conf, engine, subscribed, inflight, translation, spos, fut, cl>>

BlkChk(w) ==
  /\ W(w).pc = "blk_chk"
  /\ CheckCancelled(w, "blk_prog")
  /\ UNCHANGED <<conf, engine, hw, fut, cl>>

\* self._updateProgress(future, ..., spots_sum, tot_num, ...)
BlkProgress(w) ==
  /\ W(w).pc = "blk_prog"
  /\ UpdateProgress(W(w).n)
  /\ Goto(w, "blk_leech")
  /\ UNCHANGED <<conf, acq_state, acq_done, acq_complete, acq_data, raw, anchor_raw, current_future, hw, fut, cl>>

\* ------------------------------- confocal controller (ScannedFluoMDStream)
\* Here acq_data[k] stands for the raw of stream k, which s._onNewData fills.
FluoRaise(w, e) ==
  wk' = [wk EXCEPT ![w].pc = "f_exc", ![w].exc = e, ![w].raised = e,
                   ![w].excst = acq_state]

\* self._acq_done.clear(); _adjustHardwareSettings sets the excitation up
FluoClear(w) ==
  /\ W(w).pc = "start"
  /\ acq_done' = FALSE
  /\ light' = TRUE
  /\ Goto(w, "f_sync")
  /\ UNCHANGED <<setting, linked, acq_state, acq_complete, acq_data, raw, anchor_raw,
                 current_future, prog, hw, fut, cl>>

\* self._df0.synchronizedOn(self._trigger); synchronizedOn(None) on the others
FluoSync(w) ==
  /\ W(w).pc = "f_sync"
  /\ synced' = [k \in Streams |-> k = SEM]
  /\ wk' = [wk EXCEPT ![w].pc = "f_sub", ![w].j = 1]
  /\ UNCHANGED <<conf, engine, subscribed, trig, inflight, translation, spos, fut, cl>>

\* s._dataflow.subscribe(p_subscriber); self._acq_complete[i].clear()
FluoSub(w) ==
  /\ W(w).pc = "f_sub"
  /\ subscribed' = [subscribed EXCEPT ![W(w).j] = TRUE]
  /\ acq_complete' = [acq_complete EXCEPT ![W(w).j] = FALSE]
  /\ wk' = [wk EXCEPT ![w].pc = IF W(w).j < NStreams THEN "f_sub" ELSE "f_chk",
                      ![w].j = IF W(w).j < NStreams THEN @ + 1 ELSE @]
  /\ UNCHANGED <<conf, acq_state, acq_done, acq_data, raw, anchor_raw, current_future,
                 prog, synced, trig, inflight, translation, spos, fut, cl>>

FluoChk(w) ==
  /\ W(w).pc = "f_chk"
  /\ IF acq_state = "CANCELLED" THEN FluoRaise(w, "Cancelled") ELSE Goto(w, "f_date")
  /\ UNCHANGED <<conf, engine, hw, fut, cl>>

\* self._acq_min_date = time.time()
FluoMinDate(w) ==
  /\ W(w).pc = "f_date"
  /\ inflight' = MarkEarly
  /\ Goto(w, "f_notify")
  /\ UNCHANGED <<conf, engine, subscribed, synced, trig, translation, spos, fut, cl>>

\* self._trigger.notify()
FluoNotify(w) ==
  /\ W(w).pc = "f_notify"
  /\ Notify
  /\ wk' = [wk EXCEPT ![w].pc = "f_wait", ![w].j = 1]
  /\ UNCHANGED <<conf, engine, subscribed, synced, inflight, translation, spos, fut, cl>>

\* self._acq_complete[i].wait(...) with the event set; the check for
\* CANCELLED; unsubscribe and synchronizedOn(None) on the dataflow
FluoWait(w) ==
  /\ W(w).pc = "f_wait"
  /\ acq_complete[W(w).j]
  /\ IF acq_state = "CANCELLED"
       THEN /\ FluoRaise(w, "Cancelled")
            /\ UNCHANGED <<subscribed, synced, trig>>
       ELSE /\ subscribed' = [subscribed EXCEPT ![W(w).j] = FALSE]
            /\ Unsync({W(w).j})
            /\ wk' = [wk EXCEPT ![w].pc = IF W(w).j < NStreams THEN "f_wait" ELSE "f_done",
                                ![w].j = IF W(w).j < NStreams THEN @ + 1 ELSE @]
  /\ UNCHANGED <<conf, engine, inflight, translation, spos, fut, cl>>

\* ... the wait ends with the event not set: IOError
FluoTimeout(w) ==
  /\ W(w).pc = "f_wait"
  /\ ~acq_complete[W(w).j]
  /\ FluoRaise(w, "IOError")
  /\ UNCHANGED <<conf, engine, hw, fut, cl>>

\* "Done": _stop_light(); _onCompletedData names the data of each stream
FluoDone(w) ==
  /\ W(w).pc = "f_done"
  /\ light' = FALSE
  /\ Goto(w, "fin_unlink")
  /\ UNCHANGED <<setting, linked, engine, hw, fut, cl>>

\* except: _stop_light(); unsubscribe and synchronizedOn(None) on every dataflow
FluoExc(w) ==
  /\ W(w).pc = "f_exc"
  /\ light' = FALSE
  /\ UnsubscribeAll
  /\ Unsync(Streams)
  /\ Goto(w, "f_conv")
  /\ UNCHANGED <<setting, linked, engine, inflight, translation, spos, fut, cl>>

\* "if not isinstance(exp, CancelledError) and self._acq_state == CANCELLED"
FluoConv(w) ==
  /\ W(w).pc = "f_conv"
  /\ wk' = [wk EXCEPT ![w].pc = "fin_unlink",
                      ![w].exc = IF acq_state = "CANCELLED" THEN "Cancelled" ELSE @]
  /\ UNCHANGED <<conf, engine, hw, fut, cl>>

\* finally: self._current_future = None (then _acq_done.set(), FinDone)
FluoFin(w) ==
  /\ W(w).pc = "f_fin"
  /\ current_future' = 0
  /\ Goto(w, "fin_done")
  /\ UNCHANGED <<conf, acq_state, acq_done, acq_complete, acq_data, raw, anchor_raw,
                 prog, hw, fut, cl>>

\* _cancelAcquisition: for i in range(len(self._streams)): _acq_complete[i].set()
FluoCancelSet ==
  /\ cl.pc = "c_unsub"
  /\ acq_complete' = [k \in Streams |-> TRUE]
  /\ cl' = [cl EXCEPT !.pc = "c_unsync"]
  /\ UNCHANGED <<conf, acq_state, acq_done, acq_data, raw, anchor_raw, current_future,
                 prog, hw, wk, fut>>

\* _cancelAcquisition: self._streams[0]._dataflow.synchronizedOn(None)
FluoCancelUnsync ==
  /\ cl.pc = "c_unsync"
  /\ Unsync({SEM})
  /\ cl' = [cl EXCEPT !.pc = "c_wait"]
  /\ UNCHANGED <<conf, engine, subscribed, inflight, translation, spos, wk, fut>>

\* _onData of the confocal controller: the data acquired before
\* _acq_min_date is dropped, and the trigger notified again if it comes from
\* the first detector; else, if the completion event is not set, the data
\* is passed to the stream and the event set
FluoOnData(k) ==
  /\ inflight[k].st = "new"
  /\ IF inflight[k].early
       THEN /\ IF k = SEM THEN Notify ELSE UNCHANGED trig
            /\ UNCHANGED <<acq_data, acq_complete>>
       ELSE /\ UNCHANGED trig
            /\ IF acq_complete[k]
                 THEN UNCHANGED <<acq_data, acq_complete>>
                 ELSE /\ acq_data' = [acq_data EXCEPT ![k] = <<inflight[k].pos>>]
                      /\ acq_complete' = [acq_complete EXCEPT ![k] = TRUE]
  /\ inflight' = [inflight EXCEPT ![k] = NoFrame]
  /\ UNCHANGED <<conf, acq_state, acq_done, raw, anchor_raw, current_future, prog,
                 subscribed, synced, translation, spos, wk, fut, cl>>

WorkerFluo(w) ==
  \/ ThreadStart(w) \/ FluoClear(w) \/ FluoSync(w) \/ FluoSub(w) \/ FluoChk(w)
  \/ FluoMinDate(w) \/ FluoNotify(w) \/ FluoWait(w) \/ FluoTimeout(w)
  \/ FluoDone(w) \/ FluoExc(w) \/ FluoConv(w) \/ FinUnlink(w) \/ FluoFin(w)
  \/ FinDone(w)
  \/ BindEnd(w)

CancellerFluo ==
  \/ \E a \in 1..MaxFluoCancel : FutureCancel(a)
  \/ \E a \in 1..MaxFluoCancel : FutureCancelPending(a)
  \/ CancelLock
  \/ FluoCancelSet
  \/ FluoCancelUnsync
  \/ CancelWait
  \/ CancelTimeout

\* ---------------------------- time correlator: ScannedRemoteTCStream
TCDone(a) == tfut[a] \in {"CANCELLED", "RESULT", "EXCEPTION"}
TCBusy == tc_future # 0 /\ ~TCDone(tc_future)
TCNextAcq ==
  CHOOSE a \in TAcqs : tfut[a] = "NONE" /\ \A b \in TAcqs : b < a => tfut[b] # "NONE"
\* threading.Thread.isAlive() of the thread that runs acquisition a
TCAlive(a) == tw[a].pc \notin {"idle", "dead"}
TW(a) == tw[a]
TCGoto(a, p) == tw' = [tw EXCEPT ![a].pc = p]

\* acquire() raising IOError("Cannot do multiple acquisitions simultaneously"),
\* after prepare() and self._stream._linkHwVAs()
TCAcquireBusy ==
  /\ tcl.pc = "idle"
  /\ TCBusy
  /\ tc_linked' = TRUE
  /\ UNCHANGED <<mds, nfr, tc_state, tc_done, frame_done, tc_future, tc_thread,
                 frame_thread, new_acquisition, data_queue, tc_raw, tc_sub, emission,
                 tw, tf, tfut, tcl, produced>>

\* acquire() succeeding. When _acq_done is not set and the previous thread
\* is alive it first joins that thread for at most 10 s, and goes on in
\* either case.
TCAcquire ==
  /\ tcl.pc = "idle"
  /\ ~TCBusy
  /\ \E a \in TAcqs : tfut[a] = "NONE"
  /\ LET a == TCNextAcq IN
       /\ tc_future' = a
       /\ tc_thread' = a
       /\ tfut' = [tfut EXCEPT ![a] = "PENDING"]
       /\ tw' = [tw EXCEPT ![a].pc = "thread"]
  /\ tc_linked' = TRUE
  /\ tc_state' = "RUNNING"
  /\ UNCHANGED <<mds, nfr, tc_done, frame_done, frame_thread, new_acquisition,
                 data_queue, tc_raw, tc_sub, emission, tf, tcl, produced>>

\* ProgressiveFuture.cancel() on a future whose task is running calls the
\* task_canceller, _cancelAcquisition
TCFutureCancel(a) ==
  /\ tcl.pc = "idle"
  /\ tfut[a] = "RUNNING"
  /\ tcl' = [tcl EXCEPT !.pc = "c_lock", !.f = a]
  /\ UNCHANGED <<mds, nfr, tc_state, tc_done, frame_done, tc_future, tc_thread,
                 frame_thread, new_acquisition, data_queue, tc_raw, tc_linked, tc_sub,
                 emission, tw, tf, tfut, produced>>

\* ProgressiveFuture.cancel() on a future whose task has not started
TCFutureCancelPending(a) ==
  /\ tcl.pc = "idle"
  /\ tfut[a] = "PENDING"
  /\ tfut' = [tfut EXCEPT ![a] = "CANCELLED"]
  /\ UNCHANGED <<mds, nfr, tc_state, tc_done, frame_done, tc_future, tc_thread,
                 frame_thread, new_acquisition, data_queue, tc_raw, tc_linked, tc_sub,
                 emission, tw, tf, tcl, produced>>

\* with self._acq_lock: if FINISHED return False; self._acq_state = CANCELLED
TCCancelLock ==
  /\ tcl.pc = "c_lock"
  /\ IF tc_state = "FINISHED"
       THEN /\ tcl' = [tcl EXCEPT !.pc = "idle", !.ret = "False"]
            /\ UNCHANGED tc_state
       ELSE /\ tc_state' = "CANCELLED"
            /\ tcl' = [tcl EXCEPT !.pc = "c_set"]
  /\ UNCHANGED <<mds, nfr, tc_done, frame_done, tc_future, tc_thread,
                 frame_thread, new_acquisition, data_queue, tc_raw, tc_linked, tc_sub,
                 emission, tw, tf, tfut, produced>>

\* self._acq_done.set(); self._frame_done.set()
TCCancelSet ==
  /\ tcl.pc = "c_set"
  /\ tc_done' = TRUE
  /\ frame_done' = TRUE
  /\ tcl' = [tcl EXCEPT !.pc = "c_join"]
  /\ UNCHANGED <<mds, nfr, tc_state, tc_future, tc_thread,
                 frame_thread, new_acquisition, data_queue, tc_raw, tc_linked, tc_sub,
                 emission, tw, tf, tfut, produced>>

\* _cancelAcquisition returned True: the future becomes CANCELLED
TCCancelReturn ==
  /\ tcl' = [tcl EXCEPT !.pc = "idle", !.ret = "True"]
  /\ tfut' = [tfut EXCEPT ![tcl.f] = IF TCDone(tcl.f) THEN @ ELSE "CANCELLED"]
  /\ tw' = [tw EXCEPT ![tcl.f].ctrue = TRUE]
  /\ UNCHANGED <<mds, nfr, tc_state, tc_done, frame_done, tc_future, tc_thread,
                 frame_thread, new_acquisition, data_queue, tc_raw, tc_linked, tc_sub,
                 emission, tf, produced>>

\* self._acq_thread.join(5) and self._frame_thread.join(5) returning because
\* the threads have ended
TCCancelWait ==
  /\ tcl.pc = "c_join"
  /\ tc_thread # 0 => ~TCAlive(tc_thread)
  /\ frame_thread # 0 => tf[frame_thread] = "dead"
  /\ TCCancelReturn

\* the joins returning because the 5 s are over. Thread.join() raises
\* RuntimeError on a thread that was created but not started yet.
TCCancelTimeout ==
  /\ tcl.pc = "c_join"
  /\ \/ tc_thread # 0 /\ TCAlive(tc_thread)
     \/ frame_thread # 0 /\ tf[frame_thread] \notin {"new", "dead"}
  /\ IF frame_thread # 0 /\ tf[frame_thread] = "new"
       THEN /\ tcl' = [tcl EXCEPT !.pc = "idle", !.ret = "RuntimeError"]
            /\ UNCHANGED <<mds, nfr, tc_state, tc_done, frame_done, tc_future, tc_thread,
                           frame_thread, new_acquisition, data_queue, tc_raw, tc_linked,
                           tc_sub, emission, tw, tf, tfut, produced>>
       ELSE TCCancelReturn

\* executeAsyncTask: the thread starts the task unless the future was
\* cancelled before
TCThreadStart(a) ==
  /\ TW(a).pc = "thread"
  /\ IF tfut[a] = "PENDING"
       THEN /\ tfut' = [tfut EXCEPT ![a] = "RUNNING"]
            /\ TCGoto(a, "start")
       ELSE /\ TCGoto(a, "dead")
            /\ UNCHANGED tfut
  /\ UNCHANGED <<mds, nfr, tc_state, tc_done, frame_done, tc_future, tc_thread,
                 frame_thread, new_acquisition, data_queue, tc_raw, tc_linked, tc_sub,
                 emission, tf, tcl, produced>>

\* self._frame_thread = threading.Thread(...); self._new_acquisition = True;
\* self._acq_done.clear()
TCStart(a) ==
  /\ TW(a).pc = "start"
  /\ frame_thread' = a
  /\ tf' = [tf EXCEPT ![a] = "new"]
  /\ new_acquisition' = TRUE
  /\ tc_done' = FALSE
  /\ TCGoto(a, "prep")
  /\ UNCHANGED <<mds, nfr, tc_state, frame_done, tc_future, tc_thread,
                 data_queue, tc_raw, tc_linked, tc_sub, emission, tfut, tcl, produced>>

\* _prepareHardware(); subscribe _onAcqStop; _setEmission(1); subscribe
\* _onNewData; self._new_acquisition = True; self._frame_thread.start().
\* Thread.start() raises RuntimeError on a thread that was started before.
TCPrepare(a) ==
  /\ TW(a).pc = "prep"
  /\ tc_sub' = {"tcorr", "pdet"}
  /\ emission' = TRUE
  /\ new_acquisition' = TRUE
  /\ IF tf[frame_thread] = "new"
       THEN /\ tf' = [tf EXCEPT ![frame_thread] = "run"]
            /\ TCGoto(a, "loop")
       ELSE /\ tw' = [tw EXCEPT ![a].pc = "t_fin", ![a].exc = "RuntimeError"]
            /\ UNCHANGED tf
  /\ UNCHANGED <<mds, nfr, tc_state, tc_done, frame_done, tc_future, tc_thread,
                 frame_thread, data_queue, tc_raw, tc_linked, tfut, tcl, produced>>

\* One of the calls of the setup raising: _prepareHardware() (1), the
\* subscription of _onAcqStop (2), _setEmission(1) (3) or the subscription
\* of _onNewData (4). What comes before the call has been done, the frame
\* thread has not been started.
TCPrepFail(a) ==
  /\ TW(a).pc = "prep"
  /\ \E step \in 1..4 :
       /\ tc_sub' = IF step > 2 THEN tc_sub \cup {"tcorr"} ELSE tc_sub
       /\ emission' = IF step > 3 THEN TRUE ELSE emission
  /\ tw' = [tw EXCEPT ![a].pc = "t_fin", ![a].exc = "HwError"]
  /\ UNCHANGED <<mds, nfr, tc_state, tc_done, frame_done, tc_future, tc_thread,
                 frame_thread, new_acquisition, data_queue, tc_raw, tc_linked, tf, tfut,
                 tcl, produced>>

\* for i in range(nfr): if self._acq_done.is_set(): raise CancelledError
\* (except CancelledError: self._acq_state = CANCELLED); self._frame_done.clear()
TCLoop(a) ==
  /\ TW(a).pc = "loop"
  /\ IF TW(a).i = nfr
       THEN /\ TCGoto(a, "t_fin")
            /\ UNCHANGED <<tc_state, frame_done>>
       ELSE IF tc_done
         THEN /\ tw' = [tw EXCEPT ![a].pc = "t_fin", ![a].exc = "Cancelled"]
              /\ tc_state' = "CANCELLED"
              /\ UNCHANGED frame_done
         ELSE /\ frame_done' = FALSE
              /\ TCGoto(a, "wait")
              /\ UNCHANGED tc_state
  /\ UNCHANGED <<mds, nfr, tc_done, tc_future, tc_thread,
                 frame_thread, new_acquisition, data_queue, tc_raw, tc_linked, tc_sub,
                 emission, tf, tfut, tcl, produced>>

\* self._frame_done.wait(frame_time * 3 + 1) returning True
TCWait(a) ==
  /\ TW(a).pc = "wait"
  /\ frame_done
  /\ tw' = [tw EXCEPT ![a].pc = "loop", ![a].i = @ + 1]
  /\ UNCHANGED <<mds, nfr, tc_state, tc_done, frame_done, tc_future, tc_thread,
                 frame_thread, new_acquisition, data_queue, tc_raw, tc_linked, tc_sub,
                 emission, tf, tfut, tcl, produced>>

\* the wait timing out: raise IOError("Timed out waiting for frame")
TCTimeout(a) ==
  /\ TW(a).pc = "wait"
  /\ ~frame_done
  /\ tw' = [tw EXCEPT ![a].pc = "t_fin", ![a].exc = "IOError"]
  /\ UNCHANGED <<mds, nfr, tc_state, tc_done, frame_done, tc_future, tc_thread,
                 frame_thread, new_acquisition, data_queue, tc_raw, tc_linked, tc_sub,
                 emission, tf, tfut, tcl, produced>>

\* finally: self._acq_done.set()
TCFinSet(a) ==
  /\ TW(a).pc = "t_fin"
  /\ tc_done' = TRUE
  /\ TCGoto(a, "t_join")
  /\ UNCHANGED <<mds, nfr, tc_state, frame_done, tc_future, tc_thread,
                 frame_thread, new_acquisition, data_queue, tc_raw, tc_linked, tc_sub,
                 emission, tf, tfut, tcl, produced>>

\* finally: self._frame_thread.join(), which waits for the end of the thread;
\* on a thread that was never started it raises RuntimeError, which ends
\* the finally block there
TCFinJoin(a) ==
  /\ TW(a).pc = "t_join"
  /\ tf[frame_thread] \in {"new", "dead"}
  /\ IF tf[frame_thread] = "new"
       THEN tw' = [tw EXCEPT ![a].pc = "bind_end", ![a].exc = "RuntimeError",
                             ![a].result = "RuntimeError"]
       ELSE TCGoto(a, "t_rest")
  /\ UNCHANGED <<mds, nfr, tc_state, tc_done, frame_done, tc_future, tc_thread,
                 frame_thread, new_acquisition, data_queue, tc_raw, tc_linked, tc_sub,
                 emission, tf, tfut, tcl, produced>>

\* finally: self._stream._unlinkHwVAs(); self._acq_state = FINISHED;
\* unsubscribe _onNewData and _onAcqStop; _setEmission(0). The function
\* returns None or re-raises.
TCFinRest(a) ==
  /\ TW(a).pc = "t_rest"
  /\ tc_linked' = FALSE
  /\ tc_state' = "FINISHED"
  /\ tc_sub' = {}
  /\ emission' = FALSE
  /\ tw' = [tw EXCEPT ![a].pc = "bind_end",
                      ![a].result = IF TW(a).exc = "none" THEN "None" ELSE TW(a).exc]
  /\ UNCHANGED <<mds, nfr, tc_done, frame_done, tc_future, tc_thread,
                 frame_thread, new_acquisition, data_queue, tc_raw, tf, tfut, tcl, produced>>

\* executeAsyncTask: the outcome of the task becomes the outcome of the
\* future, unless the future is already cancelled
TCBindEnd(a) ==
  /\ TW(a).pc = "bind_end"
  /\ tfut' = [tfut EXCEPT ![a] =
                IF @ = "CANCELLED" \/ TW(a).result = "Cancelled" THEN "CANCELLED"
                ELSE IF TW(a).result = "None" THEN "RESULT" ELSE "EXCEPTION"]
  /\ TCGoto(a, "dead")
  /\ UNCHANGED <<mds, nfr, tc_state, tc_done, frame_done, tc_future, tc_thread,
                 frame_thread, new_acquisition, data_queue, tc_raw, tc_linked, tc_sub,
                 emission, tf, tcl, produced>>

\* the array that raw holds after the frame was added to it; the sums are
\* not followed beyond MaxProduced, the number of frames that are counted
CapSum(x) == IF x > MaxProduced THEN MaxProduced ELSE x
Accumulate(r, d) ==
  [sum |-> CapSum(r.sum + d.v), dwell |-> CapSum(r.dwell + 1), n |-> CapSum(r.n + 1),
   acqs |-> r.acqs \cup {d.acq}]

\* _frameThread: data = self._data_queue.get(timeout=0.1); the first frame
\* of an acquisition replaces raw, the next ones are added to raw[0]; raw[0]
\* of an empty list raises IndexError, which ends the thread
TCFrameAdd(t) ==
  /\ tf[t] = "run"
  /\ data_queue # <<>>
  /\ data_queue' = Tail(data_queue)
  /\ LET d == Head(data_queue) IN
       IF new_acquisition
         THEN /\ tc_raw' = <<[sum |-> d.v, dwell |-> 1, n |-> 1, acqs |-> {d.acq}]>>
              /\ new_acquisition' = FALSE
              /\ UNCHANGED tf
         ELSE IF tc_raw = <<>>
           THEN /\ tf' = [tf EXCEPT ![t] = "dead"]
                /\ UNCHANGED <<tc_raw, new_acquisition>>
           ELSE /\ tc_raw' = <<Accumulate(tc_raw[1], d)>>
                /\ UNCHANGED <<tf, new_acquisition>>
  /\ UNCHANGED <<mds, nfr, tc_state, tc_done, frame_done, tc_future, tc_thread,
                 frame_thread, tc_linked, tc_sub,
                 emission, tw, tfut, tcl, produced>>

\* _frameThread: "while not (self._acq_done.is_set() and self._data_queue.empty())"
TCFrameExit(t) ==
  /\ tf[t] = "run"
  /\ tc_done
  /\ data_queue = <<>>
  /\ tf' = [tf EXCEPT ![t] = "dead"]
  /\ UNCHANGED <<mds, nfr, tc_state, tc_done, frame_done, tc_future, tc_thread,
                 frame_thread, new_acquisition, data_queue, tc_raw, tc_linked, tc_sub,
                 emission, tw, tfut, tcl, produced>>

\* _onNewData, called by the photo-detector's dataflow with a frame of
\* the acquisition that is current: self._data_queue.put(data);
\* self._frame_done.set()
TCNewData ==
  /\ "pdet" \in tc_sub
  /\ produced < MaxProduced
  /\ data_queue' = Append(data_queue, [acq |-> tc_future, v |-> 1])
  /\ frame_done' = TRUE
  /\ produced' = produced + 1
  /\ UNCHANGED <<mds, nfr, tc_state, tc_done, tc_future, tc_thread,
                 frame_thread, new_acquisition, tc_raw, tc_linked, tc_sub,
                 emission, tw, tf, tfut, tcl>>

\* _onNewData, called by a photo-detector that goes on sending frames for
\* as long as it is subscribed: these frames are not counted, and are sent
\* when fewer than MaxQueue frames wait in the queue
TCMoreData ==
  /\ "pdet" \in tc_sub
  /\ produced = MaxProduced
  /\ Len(data_queue) < MaxQueue
  /\ data_queue' = Append(data_queue, [acq |-> tc_future, v |-> 1])
  /\ frame_done' = TRUE
  /\ UNCHANGED <<mds, nfr, tc_state, tc_done, tc_future, tc_thread,
                 frame_thread, new_acquisition, tc_raw, tc_linked, tc_sub,
                 emission, tw, tf, tfut, tcl, produced>>

TCCaller == TCAcquireBusy \/ TCAcquire

TCCanceller ==
  \/ \E a \in TAcqs : TCFutureCancel(a)
  \/ \E a \in TAcqs : TCFutureCancelPending(a)
  \/ TCCancelLock
  \/ TCCancelSet
  \/ TCCancelWait
  \/ TCCancelTimeout

TCWorker(a) ==
  \/ TCThreadStart(a) \/ TCStart(a) \/ TCPrepare(a) \/ TCPrepFail(a) \/ TCLoop(a) \/ TCWait(a)
  \/ TCTimeout(a) \/ TCFinSet(a) \/ TCFinJoin(a) \/ TCFinRest(a) \/ TCBindEnd(a)

TCFrames(t) == TCFrameAdd(t) \/ TCFrameExit(t)

\* ------------------------------------------------------- specifications
\* what the three workers have in common
WorkerCommon(w) ==
  \/ ThreadStart(w) \/ ClearDone(w) \/ Setup(w) \/ LeechStart(w)
  \/ Leech(w) \/ LeechChk(w) \/ DoneLock(w) \/ Assemble(w) \/ LeechComplete(w)
  \/ ExcUnsub(w) \/ ExcConv(w) \/ FinUnlink(w) \/ FinReset(w) \/ FinDone(w) \/ BindEnd(w)

\* SEMCCDMDStream._runAcquisition and _runAcquisitionScanStage
WorkerCamera(w) ==
  \/ SyncCcd(w) \/ PxNext(w) \/ AttStart(w) \/ AttChk1(w) \/ AttSub(w)
  \/ AttNotify(w) \/ AttWait(w) \/ AttWaitTimeout(w) \/ AttChk2(w)
  \/ AttEval(w) \/ AttResub(w) \/ SemWait(w) \/ SemTimeout(w) \/ AttChk3(w)
  \/ AttStore(w) \/ DoneUnsub(w) \/ FinPark(w)

\* SEMMDStream._runAcquisition
WorkerBeam(w) ==
  \/ BlkNext(w) \/ BlkClear(w) \/ BlkSync(w) \/ BlkSub(w) \/ BlkNotify(w) \/ BlkWait(w)
  \/ BlkTimeout(w) \/ BlkUnsync(w) \/ BlkChk(w) \/ BlkProgress(w)

Workers == \E w \in Acqs : WorkerCommon(w) \/ WorkerCamera(w) \/ WorkerBeam(w)

\* One acquisition, run with the caller free to cancel it at any time
Next == Caller \/ Canceller \/ Detectors \/ Workers
Spec == Init /\ [][Next]_vars

\* One acquisition of a full grid that nobody cancels
NextGrid == Caller \/ Detectors \/ Workers
SpecGrid == InitGrid /\ [][NextGrid]_vars

\* One acquisition of a line of up to MaxLeechRep pixels, that nobody
\* cancels, with a leech whose next() may raise
InitLeech ==
  /\ variant \in Variants
  /\ rep \in (1..MaxLeechRep) \X {1}
  /\ max_acq = 1
  /\ leech_k \in (1..MaxK) \cup {NoLeech}
  /\ dc = FALSE
  /\ nfr = 1
  /\ InitEngine
NextLeech == NextGrid \/ \E w \in Acqs : LeechFail(w)
SpecLeech == InitLeech /\ [][NextLeech]_vars

\* One acquisition with drift correction that nobody cancels; only there is
\* the move back of the scan stage before the drift corrector ever taken
NextDrift == Caller \/ Detectors \/ Workers \/ \E w \in Acqs : LeechBack(w)
SpecDrift == InitDrift /\ [][NextDrift]_vars

\* Several acquisitions, one after the other, on a BeamSync engine
NextMulti ==
  Caller \/ Canceller \/ Detectors \/ \E w \in Acqs : WorkerCommon(w) \/ WorkerBeam(w)
SpecMulti == InitMulti /\ [][NextMulti]_vars

\* Several acquisitions, one after the other, by the confocal controller
NextFluo ==
  \/ Caller
  \/ CancellerFluo
  \/ \E k \in Streams : Produce(k) \/ FluoOnData(k)
  \/ \E w \in Acqs : WorkerFluo(w)
SpecFluo == InitFluo /\ [][NextFluo]_vars

\* One acquisition with the scan stage
NextStage == Caller \/ Canceller \/ Detectors \/ \E w \in Acqs : WorkerCommon(w) \/ WorkerCamera(w)
SpecStage == InitStage /\ [][NextStage]_vars

\* One acquisition with the scan stage and a drift corrector that runs after
\* every pixel, never cancelled. The ROI is the whole field of view or its
\* right half; the stage starts at the centre, at an end of the X axis or one
\* pixel beyond it
StageRois == {<<0, 0, 2, 2>>, <<1, 0, 2, 2>>}
StageStartsAny == {StageRng[1] - 1, StageRng[1], 0, StageRng[3], StageRng[3] + 1}
InitStageDrift ==
  /\ variant = "stage"
  /\ rep \in (1..MaxDriftRep) \X {1}
  /\ max_acq = 1
  /\ leech_k = 1
  /\ dc = TRUE
  /\ nfr = 1
  /\ roi_val \in StageRois
  /\ roi_den = 2
  /\ InitCore
  /\ pcall = NoCall
  /\ \E p \in StageStartsAny : spos = <<p * Scale(rep, 1), 0>>
NextStageDrift ==
  Caller \/ Detectors \/ \E w \in Acqs : WorkerCommon(w) \/ WorkerCamera(w) \/ LeechBack(w)
SpecStageDrift == InitStageDrift /\ [][NextStageDrift]_vars

\* One acquisition with a scan stage whose parking move may fail
NextStageFail == NextStage \/ \E w \in Acqs : FinParkFail(w)
SpecStageFail == InitStage /\ [][NextStageFail]_vars

\* Several acquisitions, one after the other, on the time correlator stream
NextTC ==
  \/ TCCaller
  \/ TCCanceller
  \/ TCNewData
  \/ \E a \in TAcqs : TCWorker(a) \/ TCFrames(a)
SpecTC == InitTC /\ [][NextTC]_vars

\* The same with a photo-detector that never stops sending and with threads
\* that are scheduled fairly: a worker, or a frame thread, that can take a
\* step eventually takes one. Nothing is assumed of the caller nor of the
\* photo-detector.
TCFair ==
  /\ \A a \in TAcqs : WF_vars(TCWorker(a))
  /\ \A t \in TAcqs : WF_vars(TCFrames(t))
NextTCLive == NextTC \/ TCMoreData
SpecTCLive == InitTC /\ [][NextTCLive]_vars /\ TCFair

\* ------------------------------------------------- the computing methods
\* all the objects, which a computing method leaves as they are
objects == <<variant, rep, max_acq, leech_k, dc, roi_val, roi_den, light, linked, engine, hw, wk,
             fut, cl, tcv>>

\* self._assemble2DData(self.repetition.value, data_list)
CallAssemble2DData ==
  /\ pcall.f = "_assemble2DData" /\ pcall.ret = Pending
  /\ pcall' = [pcall EXCEPT !.ret = Assemble2DData(pcall.roi, pcall.den, rep, pcall.data)]
  /\ UNCHANGED objects

\* self._assembleTiles(self.repetition.value, data_list)
CallAssembleTiles ==
  /\ pcall.f = "_assembleTiles" /\ pcall.ret = Pending
  /\ pcall' = [pcall EXCEPT !.ret = AssembleTiles(pcall.roi, pcall.den, rep, pcall.data)]
  /\ UNCHANGED objects

\* self._get_center_pxs(rep, sub_shape, data_list[0])
CallGetCenterPxs ==
  /\ pcall.f = "_get_center_pxs" /\ pcall.ret = Pending
  /\ pcall' = [pcall EXCEPT !.ret = [exc |-> "none",
                 val |-> GetCenterPxs(pcall.roi, pcall.den, rep, pcall.sub, pcall.data[1])]]
  /\ UNCHANGED objects

\* self._getScanStagePositions()
CallGetScanStagePositions ==
  /\ pcall.f = "_getScanStagePositions" /\ pcall.ret = Pending
  /\ pcall' = [pcall EXCEPT !.ret =
       IF ~StageInRangeOf(pcall.roi, pcall.den, rep, spos)
         THEN [exc |-> "ValueError"]
         ELSE [exc |-> "none",
               val |-> [i \in (0..(rep[1] - 1)) \X (0..(rep[2] - 1)) |->
                          StagePosOf(pcall.roi, pcall.den, rep, spos, i[1], i[2])]]]
  /\ UNCHANGED objects

NextStagePos == CallGetScanStagePositions
SpecStagePos == InitStagePos /\ [][NextStagePos]_vars

NextCenter == CallGetCenterPxs
SpecCenter == InitCenter /\ [][NextCenter]_vars

NextAssemble == CallAssemble2DData \/ CallAssembleTiles
SpecAssemble == InitAssemble /\ [][NextAssemble]_vars

\* --------------------------------------------------------------- claims
Camera == variant \in {"ccd", "stage"}
Exited(w) == W(w).pc \in {"bind_end", "dead"} /\ W(w).result # "none"
IsPrefix(p, q) == Len(p) <= Len(q) /\ \A k \in 1..Len(p) : p[k] = q[k]

\* C1: at most one acquisition worker is executing _runAcquisition at any
\* time; a second worker is never started while the worker of an earlier
\* acquisition, cancelled or not, has not exited.
C1_AtMostOneWorker == Cardinality({w \in Acqs : Executing(w)}) <= 1

C3_NoDataRetained ==
  [][acq_state = "CANCELLED" =>
       \A k \in Streams : Len(acq_data'[k]) <= Len(acq_data[k])]_vars

\* C4: once the state is CANCELLED, the worker publishes no progress update
\* (no call of future.set_progress).
C4_NoProgressUpdate == [][acq_state = "CANCELLED" => prog' <= prog]_vars

\* C5: after _cancelAcquisition has set every completion event, the worker
\* is never waiting on a completion event that is not set (it never clears
\* an event set by cancel and then waits on it).
CancelHasSet(w) == W(w).ctrue \/ (cl.pc = "c_wait" /\ cl.f = w)
C5_NeverBlocks ==
  \A w \in Acqs : CancelHasSet(w) =>
    /\ W(w).pc = "att_wait" => acq_complete[CCD]
    /\ W(w).pc = "sem_wait" => acq_complete[SEM]
    /\ W(w).pc = "blk_wait" => acq_complete[W(w).j]

\* C6: whenever a CameraSync or scan stage acquisition reaches FINISHED,
\* every buffer of _acq_data holds exactly rep_x * rep_y samples.
C6_Complete ==
  \A w \in Acqs : Camera /\ W(w).pc = "assemble" =>
    \A k \in Streams : Len(acq_data[k]) = TotNum(rep)

\* C7: the failure counter is per pixel; at most 3 triggers are sent for a
\* pixel; the worker raises the synchronisation failure (IOError) exactly
\* when 3 attempts of the same pixel failed, so that up to 2 failures on
\* each pixel do not fail the acquisition.
C7_RetryBound ==
  \A w \in Acqs : Camera =>
    /\ W(w).att <= MaxFailures
    /\ W(w).failures <= W(w).att
    /\ (W(w).exc = "IOError") <=> (W(w).failures = MaxFailures)
    /\ W(w).pc = "att_start" => W(w).failures = W(w).att

\* an acquisition completes although the last pixel failed twice
C7_Witness ==
  \E w \in Acqs : Camera /\ W(w).fin /\ W(w).failures = MaxFailures - 1
                  /\ W(w).att = MaxFailures /\ W(w).n = TotNum(rep) /\ W(w).n > 1

\* C8: in every attempt of every pixel of CameraSync the events occur in the
\* order: translation written, primaries subscribed, trigger notified,
\* camera completion, primary completion, primaries unsubscribed, pixel
\* counted; the pixel is counted only after all of them.
PixelEvents == <<"trans", "sub", "notify", "ccd", "sem", "unsub", "count">>
C8_PixelOrder ==
  \A w \in Acqs : Camera =>
    /\ IsPrefix(W(w).ev, PixelEvents)
    /\ W(w).pc \in {"leech", "leech_chk"} => W(w).ev = PixelEvents
    /\ W(w).pc = "att_wait" =>
         (IF variant = "stage" THEN spos ELSE translation) = PixelPos(w, W(w).i)

\* the second pixel of a CameraSync acquisition has been counted
C8_Witness ==
  \E w \in Acqs : variant = "ccd" /\ W(w).ev = PixelEvents /\ W(w).n = 2

\* C9: the k-th pixel started (k from 0, retries not counted) is the grid
\* index (y, x) = (k div rep_x, k mod rep_x), at spot_pos[y, x] for the beam
\* and at stage_pos[x, y] for the scan stage.
C9_RowMajor ==
  \A w \in Acqs : Camera =>
    /\ Len(W(w).order) \in {W(w).n, W(w).n + 1}
    /\ \A k \in 1..Len(W(w).order) :
         LET y == (k - 1) \div rep[1]
             x == (k - 1) % rep[1]
         IN  /\ W(w).order[k][1] = <<y, x>>
             /\ W(w).order[k][2] = IF variant = "stage"
                                     THEN StagePos(rep, W(w).base, x, y)
                                     ELSE SpotPos(rep, y, x)

\* a 2 x 2 grid has been acquired entirely with the scan stage
C9_Witness ==
  \E w \in Acqs : variant = "stage" /\ rep = <<2, 2>> /\ W(w).fin /\ Len(W(w).order) = 4

\* C10: with a leech whose start() and next() always return k >= 1,
\* CameraSync has called next() exactly after the pixels k, 2k, 3k, ... of
\* those acquired so far.
C10_LeechEveryK ==
  \A w \in Acqs : Camera /\ leech_k # NoLeech =>
    LET upto == IF W(w).pc \in {"leech", "leech_back"} THEN W(w).n - 1 ELSE W(w).n
    IN  W(w).nexts = {m \in 1..upto : m % leech_k = 0}

\* a leech returning 2 has run twice on a grid of 4 pixels
C10_Witness ==
  \E w \in Acqs : variant = "ccd" /\ leech_k = 2 /\ W(w).nexts = {2, 4} /\ W(w).fin

NextDue(w) ==
  /\ W(w).pc \in {"leech", "blk_leech"}
  /\ W(w).np # NoLeech
  /\ IF W(w).pc = "leech" THEN W(w).np = 1 ELSE W(w).np <= W(w).npx
PixelSample(w) ==
  IF variant = "sem" THEN Last(W(w).order)[2]
  ELSE IF variant = "stage"
    THEN <<translation[1] + (PixelPos(w, W(w).i)[1] - W(w).orig[1]),
           translation[2] + (PixelPos(w, W(w).i)[2] - W(w).orig[2])>>
    ELSE PixelPos(w, W(w).i)
C12_LeechAfterPixel ==
  \A w \in Acqs : NextDue(w) =>
    /\ W(w).n >= 1
    /\ W(w).n = IF variant = "sem" THEN Last(W(w).order)[1][1] + W(w).npx
                                   ELSE Len(W(w).order)
    /\ Camera => W(w).ev = PixelEvents
    /\ \A k \in Streams : /\ acq_data[k] # <<>>
                          /\ Last(acq_data[k]) = PixelSample(w)
                          /\ Camera => W(w).got[k] = translation
    /\ \A k \in Streams : (Camera => k # CCD) => ~subscribed[k]

\* next() is due after the second pixel of a CameraSync acquisition
C12_Witness ==
  \E w \in Acqs : NextDue(w) /\ variant = "ccd" /\ leech_k = 2 /\ W(w).n = 2

\* C13: while the pixel of index n (the block, in BeamSync) is acquired, the
\* translation of the scanner is clip(grid[n] - tot_drift), tot_drift being
\* the drift known when the pixel started (zero before the first run of the
\* drift corrector); the worker goes on with the clipped value.
InPixel(w) ==
  W(w).pc \in {"att_start", "att_chk1", "att_sub", "att_notify", "att_wait",
               "att_chk2", "att_eval", "att_resub", "sem_wait", "att_chk3",
               "att_store", "leech", "blk_clear", "blk_sync", "blk_sub", "blk_notify",
               "blk_wait", "blk_unsync", "blk_chk", "blk_prog", "blk_leech"}
GridMinusDrift(w) ==
  LET g == IF variant = "sem" THEN MeanFlat(rep, W(w).n - W(w).npx, W(w).npx)
                              ELSE SpotPos(rep, W(w).i[1], W(w).i[2])
  IN  <<g[1] - W(w).drift[1] * Scale(rep, 1), g[2] - W(w).drift[2] * Scale(rep, 2)>>
C13_DriftApplied ==
  \A w \in Acqs : variant \in {"ccd", "sem"} /\ InPixel(w) =>
    LET t == GridMinusDrift(w) IN
      /\ translation[1] = Clip(t[1], TransRng[1] * Scale(rep, 1), TransRng[3] * Scale(rep, 1))
      /\ translation[2] = Clip(t[2], TransRng[2] * Scale(rep, 2), TransRng[4] * Scale(rep, 2))

\* the second pixel has been acquired at a position that the drift had
\* brought out of the range, and that was clipped
C13_Witness ==
  \E w \in Acqs : /\ variant = "ccd" /\ W(w).pc = "leech" /\ W(w).n = 2
                  /\ W(w).drift[1] = -MaxDrift
                  /\ translation # GridMinusDrift(w)

\* C14: when a receive callback gets a sample acquired before _acq_min_date,
\* the buffers and the completion events are left as they are and the
\* software trigger is not notified.
C14_StaleDropped ==
  [][\A k \in Streams :
       inflight[k].st = "new" /\ inflight[k].early /\ inflight'[k].st = "none" =>
         UNCHANGED <<acq_data, acq_complete, trig>>]_vars

\* C15: when a worker of CameraSync, of the scan stage or of BeamSync has
\* left its except block and exits with an error, no subscriber of the
\* engine is subscribed to a dataflow and the dataflow that the worker
\* synchronises on the trigger (the CCD; the first one in BeamSync) is not
\* synchronised.
Failing(w) ==
  /\ W(w).exc # "none"
  /\ W(w).pc \in {"exc_conv", "fin_park", "fin_unlink", "fin_reset", "fin_done", "bind_end"}
TriggerDf == IF variant = "sem" THEN SEM ELSE CCD
C15_Teardown ==
  \A w \in Acqs : Failing(w) =>
    /\ \A k \in Streams : ~subscribed[k]
    /\ ~synced[TriggerDf]

\* a scan stage worker exits with CancelledError while the cancel call that
\* stopped it is still waiting for it
C15_Witness ==
  \E w \in Acqs : /\ variant = "stage" /\ W(w).pc = "fin_done"
                  /\ W(w).exc = "Cancelled" /\ cl.pc = "c_wait"


\* C16 (as stated): after a worker has exited through a fatal path (timeout,
\* I/O error, a failed check of the scan stage, cancellation) the acquisition
\* state is CANCELLED or FINISHED, never RUNNING.
FatalExit(w) == Exited(w) /\ W(w).result \notin {"none", "data"}
C16_TerminalAfterFatal ==
  \A w \in Acqs : FatalExit(w) => acq_state \in {"CANCELLED", "FINISHED"}


\* C17 (as stated): for every controller, after an acquisition that ended
\* by cancellation or by an error the raw list holds no data of that
\* acquisition, whatever point of the acquisition the failure occurred at.
TCFatalExit(a) == TW(a).pc \in {"bind_end", "dead"} /\ TW(a).result \notin {"none", "None"}
C17_EngineRaw == \A w \in Acqs : FatalExit(w) => raw = <<>> /\ anchor_raw = <<>>
C17_StreamRaw ==
  \A a \in TAcqs : TCFatalExit(a) => tc_raw = <<>> \/ a \notin tc_raw[1].acqs
C17_RawOnSuccessOnly == C17_EngineRaw /\ C17_StreamRaw

\* C18: a cancel call that finds the state FINISHED returns False and
\* modifies nothing: the state stays FINISHED, raw and the anchor data are
\* unchanged, no dataflow is unsubscribed or unsynchronised, no completion
\* event is set and the future is not cancelled. The same for the cancel of
\* the time correlator stream.
CancelFinished == cl.pc = "c_lock" /\ acq_state = "FINISHED" /\ cl' # cl
TCCancelFinished == tcl.pc = "c_lock" /\ tc_state = "FINISHED" /\ tcl' # tcl
C18_CancelAfterFinished ==
  [][/\ CancelFinished => cl'.pc = "idle" /\ UNCHANGED <<conf, engine, hw, wk, fut>>
     /\ TCCancelFinished =>
          /\ tcl'.pc = "idle" /\ tcl'.ret = "False"
          /\ UNCHANGED <<nfr, tc_state, tc_done, frame_done, tc_future, tc_thread,
                         frame_thread, new_acquisition, data_queue, tc_raw, tc_linked,
                         tc_sub, emission, tw, tf, tfut, produced>>]_vars
\* a cancel call on the future of a worker that had moved the state to
\* FINISHED has returned False, and the assembled data is in raw
C18_Witness ==
  /\ cl.pc = "idle" /\ cl.f = 1 /\ ~wk[1].ctrue /\ wk[1].fin
  /\ acq_state = "FINISHED" /\ raw # <<>> /\ fut[1] = "RESULT"

\* C19 (as stated): acquire() called while the future of the current
\* acquisition is not done raises the busy error and changes nothing: no
\* worker is started, _acq_state, _current_future, _prog_sum and the links of
\* the sub-streams to the hardware settings are as before the call, and the
\* running acquisition is not disturbed.
C19_BusyNoChange == [][AcquireBusy => UNCHANGED vars]_vars

\* C20: when the worker of a CameraSync, scan stage or BeamSync acquisition
\* fails with an exception while the state is CANCELLED, the future ends
\* cancelled, never with the original exception, for every interleaving of
\* the cancel call with the failure.
FailedCancelled(w) == W(w).raised # "none" /\ W(w).excst = "CANCELLED"
C21_StageParked ==
  variant = "stage" =>
    \A w \in Acqs : Exited(w) => W(w).lastmove = "park" /\ spos = StageCentre(rep)
\* a cancelled acquisition that had started away from the centre and had
\* moved the stage to its second pixel
C21_Witness ==
  \E w \in Acqs : /\ variant = "stage" /\ Exited(w) /\ W(w).result = "Cancelled"
                  /\ W(w).orig # StageCentre(rep) /\ W(w).n = 1
                  /\ Len(W(w).order) = 2 /\ W(w).lastmove = "park"

\* C22 (as stated): when the ROI and the position of the stage give a target
\* box that exceeds the ranges of the axes, the acquisition fails with the
\* out-of-range error and no move command at all is issued to the stage
\* during that acquisition.
OutOfRange(w) == variant = "stage" /\ W(w).pc # "idle" /\ W(w).raised = "ValueError"
C22_OutOfRangeNoMove ==
  \A w \in Acqs : OutOfRange(w) =>
    /\ W(w).lastmove = "none" /\ spos = W(w).orig
    /\ Exited(w) => W(w).result = "ValueError"

\* C23 (as stated): when a stream acquisition ends successfully, raw[0] is
\* the sum of exactly nfr frames, all of them received during that
\* acquisition, and its dwell time is the sum of the dwell times of those
\* frames; with frames of constant value 1 the pixel value is nfr.
TCSuccess(a) == TW(a).pc = "bind_end" /\ TW(a).result = "None"
C23_StreamAccumulation ==
  \A a \in TAcqs : TCSuccess(a) =>
    /\ tc_raw # <<>>
    /\ tc_raw[1].n = nfr /\ tc_raw[1].sum = nfr /\ tc_raw[1].dwell = nfr
    /\ tc_raw[1].acqs = {a}

\* C24 (as stated): whenever _cancelAcquisition returned True during a stream
\* acquisition, at whichever frame of the loop it arrived, the wait for the
\* last frame included, the worker ends with CancelledError and never
\* returns normally.
TCExited(a) == TW(a).pc \in {"bind_end", "dead"} /\ TW(a).result # "none"
C24_StreamCancel ==
  \A a \in TAcqs : TW(a).ctrue /\ TCExited(a) => TW(a).result = "Cancelled"

\* C25 (as stated): on every exit path of the stream worker (success,
\* cancel, timeout, an exception raised at any step of the setup) both
\* detector dataflows end unsubscribed, the light emission ends at zero, the
\* done signal is set and the frame thread has been joined.
C25_StreamCleanup ==
  \A a \in TAcqs : TW(a).pc = "bind_end" =>
    /\ tc_sub = {} /\ ~emission /\ tc_done
    /\ tf[a] # "run"

\* what a call returned
Returned(f) == pcall.f = f /\ pcall.ret # Pending
SingleValues(dl) == \A k \in 1..Len(dl) : dl[k].shape = <<1, 1>>

\* C26: for every repetition (rep_x, rep_y) and every list of rep_x * rep_y
\* samples of one value, _assemble2DData returns an array of shape
\* (rep_y, rep_x) whose item (y, x) is the value of sample number
\* y * rep_x + x; when the first sample is empty, it is returned as it is.
C26_FlatOrdering ==
  Returned("_assemble2DData") =>
    /\ SingleValues(pcall.data) =>
         /\ pcall.ret.exc = "none"
         /\ pcall.ret.val.shape = <<rep[2], rep[1]>>
         /\ \A y \in 0..(rep[2] - 1), x \in 0..(rep[1] - 1) :
              Item2(pcall.ret.val, y, x) = pcall.data[y * rep[1] + x + 1].flat[1]
    /\ pcall.data[1].shape = <<0>> =>
         pcall.ret.exc = "none" /\ pcall.ret.val = pcall.data[1]

\* a grid of 2 x 2 samples has been assembled, the second sample of the
\* first line different from the first sample of the second line
C26_Witness ==
  /\ Returned("_assemble2DData") /\ rep = <<2, 2>> /\ SingleValues(pcall.data)
  /\ pcall.data[2].flat # pcall.data[3].flat
  /\ Item2(pcall.ret.val, 0, 1) = pcall.data[2].flat[1]

C28_CentreRule ==
  Returned("_get_center_pxs") /\ pcall.sub = <<1, 1>> =>
    LET first == pcall.data[1].pos
        c == pcall.ret.val
        w == (pcall.roi[3] - pcall.roi[1]) * EmitterPxs[1] * EmitterShape[1]
        h == (pcall.roi[4] - pcall.roi[2]) * EmitterPxs[2] * EmitterShape[2]
    IN  /\ c.center[1] = c.scale * first[1] + (rep[1] - 1) * w
        /\ c.center[2] * rep[2] = c.scale * rep[2] * first[2] - (rep[2] - 1) * h * rep[1]

\* the pixels are square: the same size along X and along Y
SquarePixels ==
  (pcall.roi[3] - pcall.roi[1]) * EmitterPxs[1] * EmitterShape[1] * rep[2]
    = (pcall.roi[4] - pcall.roi[2]) * EmitterPxs[2] * EmitterShape[2] * rep[1]

\* The target box: the ROI with half a pixel taken off on each side, laid
\* around the current position of the stage in the field of view of the
\* emitter, Y downwards; the corner at fraction l / sc(d) of the field of
\* view along axis d, all scaled by sc(d) = 2 * rep[d] * den.
BoxInside ==
  LET roi == pcall.roi
      sc(d) == 2 * rep[d] * pcall.den
      fov(d) == EmitterShape[d] * EmitterPxs[d]
      lo(d) == 2 * rep[d] * roi[d] + (roi[d + 2] - roi[d])
      hi(d) == 2 * rep[d] * roi[d + 2] - (roi[d + 2] - roi[d])
      bx(l) == spos[1] + fov(1) * (l - rep[1] * pcall.den)
      by(l) == spos[2] - fov(2) * (l - rep[2] * pcall.den)
  IN  /\ \A l \in {lo(1), hi(1)} :
           StageRng[1] * sc(1) <= bx(l) /\ bx(l) <= StageRng[3] * sc(1)
      /\ \A l \in {lo(2), hi(2)} :
           StageRng[2] * sc(2) <= by(l) /\ by(l) <= StageRng[4] * sc(2)

\* C29: _getScanStagePositions raises the out-of-range error exactly when
\* the target box is not entirely inside the ranges of the x and y axes;
\* when it returns, every position of the grid is within the ranges.
C29_StageRangeCheck ==
  Returned("_getScanStagePositions") =>
    /\ pcall.ret.exc = "ValueError" <=> ~BoxInside
    /\ pcall.ret.exc = "none" =>
         \A i \in DOMAIN pcall.ret.val :
           LET q == pcall.ret.val[i] IN
             /\ StageRng[1] * 2 * rep[1] * pcall.den <= q[1]
             /\ q[1] <= StageRng[3] * 2 * rep[1] * pcall.den
             /\ StageRng[2] * 2 * rep[2] * pcall.den <= q[2]
             /\ q[2] <= StageRng[4] * 2 * rep[2] * pcall.den

\* a grid of 2 x 2 positions whose last column is at the very end of the x
\* range has been returned
C29_Witness ==
  /\ Returned("_getScanStagePositions") /\ pcall.ret.exc = "none"
  /\ rep = <<2, 2>>
  /\ pcall.ret.val[<<1, 1>>][1] = StageRng[3] * 2 * rep[1] * pcall.den
  /\ pcall.ret.val[<<0, 0>>][1] < pcall.ret.val[<<1, 1>>][1]

\* C30 (as stated): at the moment the camera is triggered for any attempt of
\* pixel number n, the first one or a retry after a failure, every buffer
\* _acq_data[k] holds exactly n samples: a failed attempt leaves no sample
\* behind, even when one of its frames arrives late.
C30_BufferLength ==
  [][\A w \in Acqs : Camera /\ AttNotify(w) =>
       \A k \in Streams : Len(acq_data[k]) = W(w).n]_vars

\* C31: in CameraSync, when the wait for the completion event of a primary
\* detector ends with the event not set, the worker raises TimeoutError on
\* that attempt: the pixel is not tried again, the failure counter is
\* neither read nor written, and the acquisition ends with TimeoutError.
SemTimedOut(w) == Camera /\ W(w).raised = "TimeoutError"
C31_PrimaryTimeoutFatal ==
  /\ [](\A w \in Acqs : SemTimedOut(w) =>
          /\ W(w).pc \in {"exc_unsub", "exc_conv", "fin_park", "fin_unlink", "fin_reset",
                          "fin_done", "bind_end", "dead"}
          /\ W(w).failures = W(w).att - 1
          /\ Exited(w) => W(w).result = "TimeoutError")
  /\ [][\A w \in Acqs :
          Camera /\ W(w).pc = "sem_wait" /\ ~acq_complete[SEM] /\ wk'[w].pc # "sem_wait"
            => wk'[w].raised = "TimeoutError" /\ wk'[w].failures = W(w).failures]_vars

\* the primary timed out on the second attempt of the second pixel, and the
\* acquisition has ended
C31_Witness ==
  \E w \in Acqs : /\ SemTimedOut(w) /\ Exited(w) /\ W(w).result = "TimeoutError"
                  /\ W(w).n = 1 /\ W(w).att = 2 /\ W(w).failures = 1

\* C32: in every block of BeamSync the primary dataflow is synchronised on
\* the trigger before any dataflow is subscribed, every dataflow is
\* subscribed before the trigger is notified, the trigger is notified exactly
\* once, and when a leech runs for the block every dataflow is unsubscribed
\* and the primary dataflow is not synchronised any more.
C32_BlockProtocol ==
  \A w \in Acqs : variant = "sem" =>
    /\ W(w).pc = "blk_sub" => synced[SEM] /\ \A k \in Streams : ~subscribed[k]
    /\ W(w).pc = "blk_notify" =>
         /\ synced[SEM] /\ \A k \in Streams : subscribed[k]
         /\ W(w).att = 0
    /\ W(w).pc \in {"blk_wait", "blk_unsync", "blk_chk", "blk_prog", "blk_leech", "blk_lchk"} =>
         W(w).att = 1
    /\ W(w).pc \in {"blk_leech", "blk_lchk"} =>
         /\ \A k \in Streams : ~subscribed[k]
         /\ ~synced[SEM]

\* the leech has run after the second block of a grid
C32_Witness ==
  \E w \in Acqs : /\ variant = "sem" /\ W(w).pc = "blk_lchk" /\ W(w).n = 2
                  /\ Len(W(w).order) = 2 /\ W(w).att = 1

\* C33: in BeamSync, with every leech countdown >= 1, every iteration of the
\* loop acquires at least one pixel and at most the minimum of the leech
\* countdown and the pixels left; the blocks follow each other in row-major
\* order (each is whole lines, or a part of one line, and starts where the
\* one before ended); the countdown never becomes negative; the loop ends
\* with rep_x * rep_y pixels acquired.
InBlock(w) ==
  W(w).pc \in {"blk_clear", "blk_sync", "blk_sub", "blk_notify", "blk_wait", "blk_unsync",
               "blk_chk", "blk_prog", "blk_leech"}
BlockArea(b) == b[1][2][1] * b[1][2][2]
RECURSIVE AreaUpTo(_, _)
AreaUpTo(o, k) == IF k = 0 THEN 0 ELSE BlockArea(o[k]) + AreaUpTo(o, k - 1)
C33_BlocksPartition ==
  \A w \in Acqs : variant = "sem" =>
    /\ InBlock(w) =>
         /\ W(w).npx >= 1
         /\ W(w).npx = BlockArea(Last(W(w).order))
         /\ W(w).np # NoLeech => W(w).np - W(w).npx >= 0
    /\ W(w).n <= TotNum(rep)
    /\ W(w).n = AreaUpTo(W(w).order, Len(W(w).order))
    /\ \A k \in 1..Len(W(w).order) :
         LET start == W(w).order[k][1][1]
             rect == W(w).order[k][1][2]
         IN  /\ start = AreaUpTo(W(w).order, k - 1)
             /\ \/ rect[2] = rep[1] /\ start % rep[1] = 0
                \/ rect[1] = 1 /\ (start % rep[1]) + rect[2] <= rep[1]
    /\ W(w).np # NoLeech => W(w).np >= 0
    /\ W(w).pc \in {"done_lock", "assemble", "complete"} => W(w).n = TotNum(rep)

\* a grid of 2 x 2 has been acquired in two blocks or more, with a leech
C33_Witness ==
  \E w \in Acqs : /\ variant = "sem" /\ rep = <<2, 2>> /\ W(w).pc = "done_lock"
                  /\ Len(W(w).order) >= 2 /\ W(w).np # NoLeech

\* C34: in a scan stage acquisition, when the anchor drift corrector is due
\* the stage is moved back to its original position, the move being over,
\* before next() is called; the move of the next pixel is computed from that
\* position, so that while a pixel is acquired the stage is where the pixel
\* is (grid position minus drift, brought into the range): no move of an
\* axis was left out wrongly.
C34_DriftOrdering ==
  \A w \in Acqs : variant = "stage" /\ dc =>
    /\ W(w).pc = "leech_back" =>
         spos = W(w).orig /\ W(w).prev = W(w).orig /\ W(w).n \notin W(w).nexts
    /\ W(w).pc = "leech_chk" =>
         spos = W(w).orig /\ W(w).lastmove = "leech" /\ W(w).n \in W(w).nexts
    /\ InPixel(w) => spos = StageTrans(w, PixelPos(w, W(w).i))

\* the second pixel is being acquired after the drift corrector reported a
\* drift that puts it where the first pixel was
C34_Witness ==
  \E w \in Acqs : /\ variant = "stage" /\ dc /\ W(w).pc = "att_start"
                  /\ Len(W(w).order) = 2 /\ W(w).nexts = {1}
                  /\ W(w).drift[1] # 0
                  /\ spos[1] = W(w).order[1][2][1]
                  /\ spos # W(w).orig

\* C35: when _cancelAcquisition returns True because _acq_done was found set
\* (its wait of 5 s did not time out), the worker of the acquisition that is
\* cancelled has finished its teardown: it has unsubscribed the dataflows,
\* unlinked the settings and set _acq_done itself. This also when a previous
\* acquisition has run on the engine.
TornDown(w) ==
  /\ W(w).pc \in {"bind_end", "dead"} /\ W(w).result # "none"
  /\ \A k \in Streams : ~subscribed[k]
C35_CancelAfterExit ==
  [][cl.pc = "c_wait" /\ acq_done /\ cl'.pc = "idle" => TornDown(cl.f)]_vars

\* C36: a cancellation is never lost to a later acquire(): once
\* _cancelAcquisition has returned True for an acquisition, the worker of
\* that acquisition never moves the state to FINISHED, assembles no output
\* and does not return data, even when acquire() is called again before the
\* worker has seen the state CANCELLED.
C36_CancelNotLost ==
  \A w \in Acqs : W(w).ctrue =>
    /\ W(w).pc # "assemble"
    /\ ~W(w).fin
    /\ Exited(w) => W(w).result # "data"

\* C37: on every exit path of a worker (success, cancellation, any error,
\* an error raised while parking the stage included) the final cleanup has
\* run to completion when the worker has ended: it has gone through the
\* reset of the buffers of _acq_data, which leaves them empty, _current_future
\* is None and _acq_done is set.
Ended(w) == W(w).pc \in {"bind_end", "dead"} /\ W(w).result # "none"
C37_CleanupCompletes ==
  /\ [](\A w \in Acqs : Ended(w) => acq_done /\ current_future = 0)
  /\ [][\A w \in Acqs :
         /\ W(w).pc = "fin_reset" /\ wk'[w].pc # "fin_reset" => acq_data' = EmptyData
         /\ ~Ended(w) /\ Ended(w)' => W(w).pc = "fin_done"]_vars

\* C38: leech failures are never fatal: a call of next() that raises does
\* not abort the acquisition, which goes on with the check that follows a
\* call of next(); a leech whose start() raised is never asked next(); a
\* leech whose next() raised after m pixels is asked again after pixel
\* m + 1 (after a block of one pixel in BeamSync).
NextRaises(w) == wk'[w].nfail # W(w).nfail
C38_LeechNotFatal ==
  /\ [](\A w \in Acqs :
          /\ leech_k = NoLeech => W(w).nexts = {} /\ W(w).nfail = {}
          /\ W(w).nfail \subseteq W(w).nexts
          /\ \A m \in W(w).nfail :
               /\ (\E k \in W(w).nexts : k > m) => m + 1 \in W(w).nexts
               /\ W(w).fin /\ m < TotNum(rep) => m + 1 \in W(w).nexts
               /\ W(w).n > m => W(w).n = m + 1 \/ m + 1 \in W(w).nexts)
  /\ [][\A w \in Acqs : NextRaises(w) =>
          /\ wk'[w].pc \in {"leech_chk", "blk_lchk"}
          /\ wk'[w].exc = "none" /\ wk'[w].raised = "none"]_vars

\* a BeamSync acquisition of 3 pixels with a leech due every 2 pixels has
\* finished although next() raised after pixel 2
C38_Witness ==
  \E w \in Acqs : /\ variant = "sem" /\ rep = <<3, 1>> /\ leech_k = 2 /\ W(w).fin
                  /\ W(w).nfail = {2} /\ W(w).nexts = {2, 3}

\* C39: during a scan stage acquisition, for any drift and any initial
\* position of the stage, every target passed to a move of the stage (the
\* move of every pixel, the move back to the original position before the
\* drift corrector, the final parking move) is within the ranges of the x
\* and y axes.
AxisInRange(a, v) ==
  StageRng[a] * Scale(rep, a) <= v /\ v <= StageRng[a + 2] * Scale(rep, a)
C39_TargetsInRange ==
  \A w \in Acqs : \A t \in W(w).tgts : AxisInRange(t[1], t[2])

\* C40: the accumulator task terminates: once the worker has set the done
\* signal and joins the frame thread, the frame thread eventually exits and
\* the join returns, with threads scheduled fairly and whatever the
\* photo-detector, still subscribed during the join, sends.
C40_AccumulatorExits ==
  \A a \in TAcqs : (TW(a).pc = "t_join") ~> (TW(a).pc # "t_join")

====
